---- MODULE Spec2Model ----
(***************************************************************************)
(* The resilient JSON-array recovery engine of src/knowledge_graph/llm.py: *)
(* _repair_json_string, _extract_complete_objects, extract_json_from_text. *)
(*                                                                         *)
(* A text is a sequence of characters, each character a one-element TLA+   *)
(* string token ("\f" is the form feed U+000C, "^A" stands for U+0001 and *)
(* "<bt>" for the backtick U+0060).                                        *)
(* Indices are 1-based: Python's index i is i + 1 here, and Python's -1    *)
(* ("not found") is 0.                                                     *)
(*                                                                         *)
(* Python values:                                                          *)
(*   None            <<"None">>                                            *)
(*   True / False    <<"bool", "true">> / <<"bool", "false">>              *)
(*   int             <<"num", digits>>                                     *)
(*   str             <<"str", characters>>                                 *)
(*   list            <<"list", elements>>                                  *)
(*   dict            <<"dict", function from keys to values>>              *)
(* A dict is a function, so that two dicts are equal when they hold the    *)
(* same keys with the same values, as in Python.                           *)
(***************************************************************************)
EXTENDS Integers, Sequences, FiniteSets, TLC

VARIABLES
    text,     \* the argument of the call
    start,    \* _extract_complete_objects' start_idx (0 for the other calls)
    pc,       \* "ready", then the name of the function that was called
    result,   \* what the call did: <<"return", value>> or <<"raise", exception>>
    stdout,   \* the diagnostics printed
    calls,    \* concurrent invocations of extract_json_from_text: the
              \* status, the argument and the outcome of each
    frames,   \* the local variables of the invocations in progress
    input_data, \* the extraction scripts' input file: the pages
    state,      \* the scripts' state file (Absent until a script saves it)
    output,     \* the scripts' output file (Absent until a script saves it)
    attempts    \* how often the scripts have called process_page (or
                \* extract_triples) for each page: a history of the runs,
                \* held by no variable of the program

\* the files the extraction scripts share
files == <<input_data, state, output>>

vars == <<text, start, pc, result, stdout, calls, frames, input_data, state, output,
          attempts>>

----------------------------------------------------------------------------
(* Characters *)

Quote == "\""

Backslash == "\\"

\* U+0060 (the lexer refuses the character itself in a string)
Backtick == "<bt>"

\* str.isspace / the regular expressions' \s, over the model's characters
\* (U+000C is white space for both, and is no JSON white space).
IsSpace(c) == c \in {" ", "\t", "\n", "\r", "\f"}

\* the regular expressions' \w
IsWord(c) ==
    c \in {"a", "b", "c", "d", "e", "f", "g", "h", "i", "j", "k", "l", "m",
            "n", "o", "p", "q", "r", "s", "t", "u", "v", "w", "x", "y", "z",
            "0", "1", "2", "3", "4", "5", "6", "7", "8", "9", "_"}

IsDigit(c) == c \in {"0", "1", "2", "3", "4", "5", "6", "7", "8", "9"}

\* the class [\x00-\x08\x0b\x0c\x0e-\x1f] of the control-character strip
IsStrippedControl(c) == c \in {"^A", "^H", "\f"}

\* a character below U+0020, which json.loads refuses inside a string
IsControl(c) == c \in {"^A", "^H", "\f", "\t", "\n", "\r"}

\* the white space json.loads skips between tokens
IsJsonSpace(c) == c \in {" ", "\t", "\n", "\r"}

----------------------------------------------------------------------------
(* Python values *)

None == <<"None">>

PyStr(cs) == <<"str", cs>>

PyList(xs) == <<"list", xs>>

PyDict(f) == <<"dict", f>>

\* d[k] = v
DictSet(f, k, v) == [x \in (DOMAIN f) \cup {k} |-> IF x = k THEN v ELSE f[x]]

\* bool(v): None, False, 0, "", [] and {} are false
Truthy(v) ==
    CASE v[1] = "None" -> FALSE
      [] v[1] = "bool" -> v[2] = "true"
      [] v[1] = "num"  -> v[2] # <<"0">>
      [] v[1] = "str"  -> Len(v[2]) > 0
      [] v[1] = "list" -> Len(v[2]) > 0
      [] v[1] = "dict" -> DOMAIN v[2] # {}

IsList(v) == v[1] = "list"

IsDict(v) == v[1] = "dict"

----------------------------------------------------------------------------
(* json.loads, as _repair_json_string and extract_json_from_text call it.  *)
(* A parse ends "ok" with the value v and the index i after it, or raises  *)
(* JSONDecodeError, or raises RecursionError when arrays and objects nest  *)
(* deeper than the interpreter's recursion limit allows.                   *)

\* The nesting depth at which the decoder raises RecursionError. CPython's
\* limit is 1000 frames; the model scales it down so that texts of a few
\* characters reach it.
RecursionLimit == 3

Ok(v, i) == [st |-> "ok", v |-> v, i |-> i]

JSONDecodeError == [st |-> "JSONDecodeError"]

RecursionError == [st |-> "RecursionError"]

RECURSIVE SkipJsonSpace(_, _)
SkipJsonSpace(s, i) ==
    IF i <= Len(s) /\ IsJsonSpace(s[i]) THEN SkipJsonSpace(s, i + 1) ELSE i

\* s[i .. i + Len(w) - 1] = w
MatchAt(s, i, w) ==
    /\ i >= 1
    /\ i + Len(w) - 1 <= Len(s)
    /\ \A k \in 1..Len(w) : s[i + k - 1] = w[k]

\* the character an escape sequence \c stands for
Unescape(c) ==
    CASE c = "b" -> "^H"
      [] c = "f" -> "\f"
      [] c = "n" -> "\n"
      [] c = "r" -> "\r"
      [] c = "t" -> "\t"
      [] OTHER   -> c

IsHex(c) ==
    IsDigit(c) \/ c \in {"a", "b", "c", "d", "e", "f", "A", "B", "C", "D", "E", "F"}

\* the character an escape \uXXXX stands for, for the code points of the
\* model's characters; "<u>" stands for every other character
CodePoint(hex) ==
    CASE hex = <<"0", "0", "6", "0">> -> Backtick
      [] hex = <<"0", "0", "2", "2">> -> Quote
      [] hex = <<"0", "0", "2", "0">> -> " "
      [] hex = <<"0", "0", "3", "1">> -> "1"
      [] hex = <<"0", "0", "0", "1">> -> "^A"
      [] hex = <<"0", "0", "0", "8">> -> "^H"
      [] OTHER                        -> "<u>"

\* py_scanstring (strict): s[i] is the first character after the opening
\* quote; acc holds the characters decoded so far.
RECURSIVE ScanString(_, _, _)
ScanString(s, i, acc) ==
    IF i > Len(s) THEN JSONDecodeError
    ELSE IF s[i] = Quote THEN Ok(PyStr(acc), i + 1)
    ELSE IF s[i] = Backslash THEN
        IF i + 1 > Len(s) THEN JSONDecodeError
        ELSE IF s[i + 1] \in {Quote, Backslash, "/", "b", "f", "n", "r", "t"}
        THEN ScanString(s, i + 2, Append(acc, Unescape(s[i + 1])))
        ELSE IF /\ s[i + 1] = "u"
                /\ i + 5 <= Len(s)
                /\ \A k \in (i + 2)..(i + 5) : IsHex(s[k])
        THEN ScanString(s, i + 6, Append(acc, CodePoint(SubSeq(s, i + 2, i + 5))))
        ELSE JSONDecodeError
    ELSE IF IsControl(s[i]) THEN JSONDecodeError
    ELSE ScanString(s, i + 1, Append(acc, s[i]))

RECURSIVE SkipDigits(_, _)
SkipDigits(s, i) ==
    IF i <= Len(s) /\ IsDigit(s[i]) THEN SkipDigits(s, i + 1) ELSE i

\* NUMBER_RE -?(0|[1-9]\d*); fractions and exponents need characters the
\* model's texts lack.
ScanNumber(s, i) ==
    LET d == IF s[i] = "-" THEN i + 1 ELSE i
        e == IF d <= Len(s) /\ s[d] = "0" THEN d + 1 ELSE SkipDigits(s, d)
    IN  IF e = d THEN JSONDecodeError
        ELSE IF SubSeq(s, i, e - 1) = <<"-", "0">> THEN Ok(<<"num", <<"0">>>>, e)
        ELSE Ok(<<"num", SubSeq(s, i, e - 1)>>, e)

RECURSIVE ScanOnce(_, _, _), ParseArray(_, _, _, _), ParseObject(_, _, _, _)

\* scan_once: the value that starts at s[i], inside depth enclosing
\* arrays and objects.
ScanOnce(s, i, depth) ==
    IF i > Len(s) THEN JSONDecodeError
    ELSE IF s[i] = Quote THEN ScanString(s, i + 1, <<>>)
    ELSE IF s[i] \in {"{", "["} THEN
        IF depth + 1 > RecursionLimit THEN RecursionError
        ELSE LET j == SkipJsonSpace(s, i + 1)
             IN  IF j > Len(s) THEN JSONDecodeError
                 ELSE IF s[i] = "[" THEN
                     IF s[j] = "]" THEN Ok(PyList(<<>>), j + 1)
                     ELSE ParseArray(s, j, depth + 1, <<>>)
                 ELSE
                     IF s[j] = "}" THEN Ok(PyDict(<<>>), j + 1)
                     ELSE ParseObject(s, j, depth + 1, <<>>)
    ELSE IF MatchAt(s, i, <<"n", "u", "l", "l">>) THEN Ok(None, i + 4)
    ELSE IF MatchAt(s, i, <<"t", "r", "u", "e">>) THEN Ok(<<"bool", "true">>, i + 4)
    ELSE IF MatchAt(s, i, <<"f", "a", "l", "s", "e">>) THEN Ok(<<"bool", "false">>, i + 5)
    ELSE IF s[i] = "-" \/ IsDigit(s[i]) THEN ScanNumber(s, i)
    ELSE JSONDecodeError

\* JSONArray: s[i] starts the next element; acc holds the elements so far.
ParseArray(s, i, depth, acc) ==
    LET Element(r) ==
            IF r.st # "ok" THEN r
            ELSE LET k == SkipJsonSpace(s, r.i)
                 IN  IF k > Len(s) THEN JSONDecodeError
                     ELSE IF s[k] = "]" THEN Ok(PyList(Append(acc, r.v)), k + 1)
                     ELSE IF s[k] = ","
                     THEN ParseArray(s, SkipJsonSpace(s, k + 1), depth, Append(acc, r.v))
                     ELSE JSONDecodeError
    IN  Element(ScanOnce(s, i, depth))

\* JSONObject: s[i] starts the next key; acc holds the pairs so far.
ParseObject(s, i, depth, acc) ==
    LET Pair(key, r) ==
            IF r.st # "ok" THEN r
            ELSE LET k   == SkipJsonSpace(s, r.i)
                     upd == DictSet(acc, key.v[2], r.v)
                 IN  IF k > Len(s) THEN JSONDecodeError
                     ELSE IF s[k] = "}" THEN Ok(PyDict(upd), k + 1)
                     ELSE IF s[k] = ","
                     THEN ParseObject(s, SkipJsonSpace(s, k + 1), depth, upd)
                     ELSE JSONDecodeError
        Key(key) ==
            IF key.st # "ok" THEN key
            ELSE LET c == SkipJsonSpace(s, key.i)
                 IN  IF c > Len(s) \/ s[c] # ":" THEN JSONDecodeError
                     ELSE Pair(key, ScanOnce(s, SkipJsonSpace(s, c + 1), depth))
    IN  IF i > Len(s) \/ s[i] # Quote THEN JSONDecodeError
        ELSE Key(ScanString(s, i + 1, <<>>))

\* json.loads(s): one value with white space around it and nothing else
JsonLoads(s) ==
    LET Value(r) ==
            IF r.st # "ok" THEN r
            ELSE IF SkipJsonSpace(s, r.i) # Len(s) + 1 THEN JSONDecodeError
            ELSE r
    IN  Value(ScanOnce(s, SkipJsonSpace(s, 1), 0))

----------------------------------------------------------------------------
(* The regular expressions of _repair_json_string. re.sub scans left to    *)
(* right and replaces each leftmost match; every pattern here matches in   *)
(* at most one way from a given start, so a scan decides it.               *)

\* \s* from s[i]: the index of the first character that is not white space
RECURSIVE SkipSpace(_, _)
SkipSpace(s, i) ==
    IF i <= Len(s) /\ IsSpace(s[i]) THEN SkipSpace(s, i + 1) ELSE i

\* \w* from s[i]
RECURSIVE SkipWord(_, _)
SkipWord(s, i) ==
    IF i <= Len(s) /\ IsWord(s[i]) THEN SkipWord(s, i + 1) ELSE i

CharAt(s, i) == IF i >= 1 /\ i <= Len(s) THEN s[i] ELSE "<none>"

\* re.sub(r'[\x00-\x08\x0b\x0c\x0e-\x1f]', '', s)
StripControl(s) == SelectSeq(s, LAMBDA c : ~IsStrippedControl(c))

\* re.sub(r'\}\s*\{', '},{', s) from s[i] on
RECURSIVE SubObjectComma(_, _)
SubObjectComma(s, i) ==
    IF i > Len(s) THEN <<>>
    ELSE LET j == SkipSpace(s, i + 1)
         IN  IF s[i] = "}" /\ CharAt(s, j) = "{"
             THEN <<"}", ",", "{">> \o SubObjectComma(s, j + 1)
             ELSE <<s[i]>> \o SubObjectComma(s, i + 1)

\* re.sub(r'"\s*"(\w+)"\s*:', r'","\1":', s) from s[i] on
RECURSIVE SubAdjacentKey(_, _)
SubAdjacentKey(s, i) ==
    IF i > Len(s) THEN <<>>
    ELSE LET q == SkipSpace(s, i + 1)
             w == SkipWord(s, q + 1)
             c == SkipSpace(s, w + 1)
         IN  IF /\ s[i] = Quote
                /\ CharAt(s, q) = Quote
                /\ w > q + 1
                /\ CharAt(s, w) = Quote
                /\ CharAt(s, c) = ":"
             THEN <<Quote, ",", Quote>> \o SubSeq(s, q + 1, w - 1)
                      \o <<Quote, ":">> \o SubAdjacentKey(s, c + 1)
             ELSE <<s[i]>> \o SubAdjacentKey(s, i + 1)

\* (?:[^"\\]|\\.)*" from s[i]: the index of the closing quote, 0 when the
\* pattern does not match ('.' matches no newline)
RECURSIVE QuotedEnd(_, _)
QuotedEnd(s, i) ==
    IF i > Len(s) THEN 0
    ELSE IF s[i] = Quote THEN i
    ELSE IF s[i] = Backslash THEN
        IF i + 1 <= Len(s) /\ s[i + 1] # "\n" THEN QuotedEnd(s, i + 2) ELSE 0
    ELSE QuotedEnd(s, i + 1)

\* re.sub(r'("(?:[^"\\]|\\.)*")\s+("(?:[^"\\]|\\.)*"\s*:)', r'\1,\2', s)
RECURSIVE SubValueKey(_, _)
SubValueKey(s, i) ==
    IF i > Len(s) THEN <<>>
    ELSE LET e1 == IF s[i] = Quote THEN QuotedEnd(s, i + 1) ELSE 0
             q  == IF e1 = 0 THEN 0 ELSE SkipSpace(s, e1 + 1)
             e2 == IF q > e1 + 1 /\ CharAt(s, q) = Quote
                   THEN QuotedEnd(s, q + 1) ELSE 0
             c  == IF e2 = 0 THEN 0 ELSE SkipSpace(s, e2 + 1)
         IN  IF e2 # 0 /\ CharAt(s, c) = ":"
             THEN SubSeq(s, i, e1) \o <<",">> \o SubSeq(s, q, c)
                      \o SubValueKey(s, c + 1)
             ELSE <<s[i]>> \o SubValueKey(s, i + 1)

\* re.sub(r',(\s*[\]}])', r'\1', s) from s[i] on
RECURSIVE SubTrailingComma(_, _)
SubTrailingComma(s, i) ==
    IF i > Len(s) THEN <<>>
    ELSE LET j == SkipSpace(s, i + 1)
         IN  IF s[i] = "," /\ CharAt(s, j) \in {"]", "}"}
             THEN SubSeq(s, i + 1, j) \o SubTrailingComma(s, j + 1)
             ELSE <<s[i]>> \o SubTrailingComma(s, i + 1)

\* re.sub(r'(?<=[\{,])\s*(\w+)\s*:', r' "\1":', s) from s[i] on
RECURSIVE SubUnquotedKey(_, _)
SubUnquotedKey(s, i) ==
    IF i > Len(s) THEN <<>>
    ELSE LET j == SkipSpace(s, i)
             w == SkipWord(s, j)
             c == SkipSpace(s, w)
         IN  IF /\ CharAt(s, i - 1) \in {"{", ","}
                /\ w > j
                /\ CharAt(s, c) = ":"
             THEN <<" ", Quote>> \o SubSeq(s, j, w - 1) \o <<Quote, ":">>
                      \o SubUnquotedKey(s, c + 1)
             ELSE <<s[i]>> \o SubUnquotedKey(s, i + 1)

----------------------------------------------------------------------------
(* _repair_json_string *)

\* what a call does: it returns a value or raises an exception
Return(v) == <<"return", v>>

Raise(e) == <<"raise", e>>

\* lines 84-96: the comma repairs
CommaRepairs(cleaned) ==
    SubTrailingComma(
        SubValueKey(SubAdjacentKey(SubObjectComma(cleaned, 1), 1), 1), 1)

\* lines 104-106: the unquoted-key repair
KeyRepairs(fixed) == SubTrailingComma(SubUnquotedKey(fixed, 1), 1)

\* try: return json.loads(s) / except json.JSONDecodeError: pass.
\* otherwise is what the code goes on to when the parse fails.
TryLoads(s, otherwise) ==
    LET Loaded(r) ==
            IF r.st = "ok" THEN Return(r.v)
            ELSE IF r.st = "JSONDecodeError" THEN otherwise
            ELSE Raise(r.st)
    IN  Loaded(JsonLoads(s))

RepairJsonString(json_str) ==
    LET cleaned == StripControl(json_str)
        fixed   == CommaRepairs(cleaned)
        fixed2  == KeyRepairs(fixed)
    IN  TryLoads(cleaned, TryLoads(fixed, TryLoads(fixed2, Return(None))))

----------------------------------------------------------------------------
(* _extract_complete_objects *)

\* The loop without its string states: every brace counts
RECURSIVE ObjectScanEveryBrace(_, _, _)
ObjectScanEveryBrace(s, i, st) ==
    IF i > Len(s) THEN st.objects
    ELSE IF s[i] = "{"
    THEN ObjectScanEveryBrace(s, i + 1,
             [st EXCEPT !.obj_start = IF st.brace_count = 0 THEN i ELSE @,
                        !.brace_count = @ + 1])
    ELSE IF s[i] = "}"
    THEN IF st.brace_count - 1 = 0 /\ st.obj_start # 0
         THEN ObjectScanEveryBrace(s, i + 1,
                  [st EXCEPT !.brace_count = 0,
                             !.objects = Append(@, SubSeq(s, st.obj_start, i)),
                             !.obj_start = 0])
         ELSE ObjectScanEveryBrace(s, i + 1, [st EXCEPT !.brace_count = @ - 1])
    ELSE ObjectScanEveryBrace(s, i + 1, st)

\* The loop of lines 130-153 from index i on; st holds the loop's
\* variables: objects, obj_start, brace_count, in_string, escape_next.
RECURSIVE ObjectScan(_, _, _)
ObjectScan(s, i, st) ==
    IF i > Len(s) THEN st.objects
    ELSE LET ch == s[i]
         IN  IF st.escape_next
             THEN ObjectScan(s, i + 1, [st EXCEPT !.escape_next = FALSE])
             ELSE IF ch = Backslash /\ st.in_string
             THEN ObjectScan(s, i + 1, [st EXCEPT !.escape_next = TRUE])
             ELSE IF ch = Quote
             THEN ObjectScan(s, i + 1, [st EXCEPT !.in_string = ~st.in_string])
             ELSE IF st.in_string
             THEN ObjectScan(s, i + 1, st)
             ELSE IF ch = "{"
             THEN ObjectScan(s, i + 1,
                      [st EXCEPT !.obj_start = IF st.brace_count = 0 THEN i ELSE @,
                                 !.brace_count = @ + 1])
             ELSE IF ch = "}"
             THEN IF st.brace_count - 1 = 0 /\ st.obj_start # 0
                  THEN ObjectScan(s, i + 1,
                           [st EXCEPT !.brace_count = 0,
                                      !.objects = Append(@, SubSeq(s, st.obj_start, i)),
                                      !.obj_start = 0])
                  ELSE ObjectScan(s, i + 1, [st EXCEPT !.brace_count = @ - 1])
             ELSE ObjectScan(s, i + 1, st)

\* start_idx is the 1-based index of the first character scanned
ExtractCompleteObjects(s, start_idx) ==
    ObjectScan(s, start_idx,
               [objects |-> <<>>, obj_start |-> 0, brace_count |-> 0,
                in_string |-> FALSE, escape_next |-> FALSE])

----------------------------------------------------------------------------
(* extract_json_from_text *)

Fence == <<Backtick, Backtick, Backtick>>

\* the first index >= i at which w occurs in s, 0 when there is none
RECURSIVE FindFrom(_, _, _)
FindFrom(s, w, i) ==
    IF i + Len(w) - 1 > Len(s) THEN 0
    ELSE IF MatchAt(s, i, w) THEN i
    ELSE FindFrom(s, w, i + 1)

\* str.strip()
RECURSIVE RStrip(_)
RStrip(s) ==
    IF Len(s) > 0 /\ IsSpace(s[Len(s)]) THEN RStrip(SubSeq(s, 1, Len(s) - 1)) ELSE s

Strip(s) == RStrip(SubSeq(s, SkipSpace(s, 1), Len(s)))

\* the last index >= i at which w occurs in s, 0 when there is none
RECURSIVE FindLast(_, _, _)
FindLast(s, w, i) ==
    LET here == FindFrom(s, w, i)
    IN  IF here = 0 THEN 0
        ELSE IF FindFrom(s, w, here + 1) = 0 THEN here
        ELSE FindLast(s, w, here + 1)

\* CodeBlockSearch with a greedy body ([\s\S]* for [\s\S]*?): the block
\* runs to the last fence of the text
CodeBlockSearchGreedy(s, i) ==
    LET open  == FindFrom(s, Fence, i)
        tag   == IF MatchAt(s, open + 3, <<"j", "s", "o", "n">>)
                 THEN open + 7 ELSE open + 3
        body  == SkipSpace(s, tag)
        close == FindLast(s, Fence, body)
    IN  IF open = 0 \/ close = 0 THEN [found |-> FALSE]
        ELSE [found |-> TRUE, group1 |-> SubSeq(s, body, close - 1)]

\* re.search(r'```(?:json)?\s*([\s\S]*?)```', s), trying the starts from
\* s[i] on: the opening fence, the optional tag, white space, then as few
\* characters as reach the next fence. group1 is the captured text.
RECURSIVE CodeBlockSearch(_, _)
CodeBlockSearch(s, i) ==
    LET open  == FindFrom(s, Fence, i)
        tag   == IF MatchAt(s, open + 3, <<"j", "s", "o", "n">>)
                 THEN open + 7 ELSE open + 3
        body  == SkipSpace(s, tag)
        close == FindFrom(s, Fence, body)
    IN  IF open = 0 THEN [found |-> FALSE]
        ELSE IF close # 0
        THEN [found |-> TRUE, group1 |-> SubSeq(s, body, close - 1)]
        ELSE CodeBlockSearch(s, open + 1)

\* lines 188-199: the index of the "]" that brings the bracket count back
\* to zero, counting from the "[" at start_idx; 0 when the text ends first
RECURSIVE BracketScan(_, _, _)
BracketScan(s, i, bracket_count) ==
    IF i > Len(s) THEN 0
    ELSE IF s[i] = "[" THEN BracketScan(s, i + 1, bracket_count + 1)
    ELSE IF s[i] = "]" THEN
        IF bracket_count - 1 = 0 THEN i
        ELSE BracketScan(s, i + 1, bracket_count - 1)
    ELSE BracketScan(s, i + 1, bracket_count)

\* re.findall(r'\[[\s\S]*?\]', s) from s[i] on
RECURSIVE FindAllArrays(_, _)
FindAllArrays(s, i) ==
    LET open  == FindFrom(s, <<"[">>, i)
        close == IF open = 0 THEN 0 ELSE FindFrom(s, <<"]">>, open + 1)
    IN  IF close = 0 THEN <<>>
        ELSE <<SubSeq(s, open, close)>> \o FindAllArrays(s, close + 1)

\* ",\n".join(objects)
RECURSIVE JoinObjects(_)
JoinObjects(objects) ==
    IF Len(objects) = 0 THEN <<>>
    ELSE IF Len(objects) = 1 THEN objects[1]
    ELSE objects[1] \o <<",", "\n">> \o JoinObjects(Tail(objects))

\* what extract_json_from_text does: ret is the return or the exception,
\* out the diagnostics printed (the counts in two of them left out)
Outcome(ret, out) == [ret |-> ret, out |-> out]

\* lines 231-235: the loop over all_arrays from all_arrays[k] on;
\* the result is an exception raised by a repair, or <<"merged", list>>
RECURSIVE MergeArrays(_, _, _)
MergeArrays(all_arrays, k, merged_objects) ==
    LET Parsed(parsed) ==
            IF parsed[1] = "raise" THEN parsed
            ELSE IF Truthy(parsed[2]) /\ IsList(parsed[2])
            THEN MergeArrays(all_arrays, k + 1, merged_objects \o parsed[2][2])
            ELSE MergeArrays(all_arrays, k + 1, merged_objects)
    IN  IF k > Len(all_arrays) THEN <<"merged", merged_objects>>
        ELSE Parsed(RepairJsonString(all_arrays[k]))

\* lines 227-241: "Strategy 3", and the final failure
MergeStrategy(s, out) ==
    LET all_arrays == FindAllArrays(s, 1)
        Merged(merged) ==
            IF merged[1] = "raise" THEN Outcome(merged, out)
            ELSE IF Len(merged[2]) > 0
            THEN Outcome(Return(PyList(merged[2])), Append(out, "Merged arrays into objects"))
            ELSE Outcome(Return(None),
                         Append(out, "No complete JSON array could be extracted"))
    IN  Merged(IF Len(all_arrays) > 1
               THEN MergeArrays(all_arrays, 1, <<>>)
               ELSE <<"merged", <<>>>>)

\* lines 216-225: "Strategy 2", falling through to the merge
ReconstructStrategy(s, start_idx, out) ==
    LET objects       == ExtractCompleteObjects(s, start_idx + 1)
        reconstructed == <<"[", "\n">> \o JoinObjects(objects) \o <<"\n", "]">>
        Recovered(res) ==
            IF Len(objects) > 0 /\ res[1] = "raise" THEN Outcome(res, out)
            ELSE IF Len(objects) > 0 /\ Truthy(res[2])
            THEN Outcome(res, Append(out, "Recovered objects via reconstruction"))
            ELSE MergeStrategy(s, out)
    IN  Recovered(RepairJsonString(reconstructed))

\* lines 181-214: the bracket search and "Strategy 1". way is the branch
\* lines 201-214 take; the three that go on to "Strategy 2" print first.
BracketStrategy(s, out) ==
    LET start_idx     == FindFrom(s, <<"[">>, 1)
        close         == BracketScan(s, start_idx, 0)
        complete_json == close # 0
        json_str      == IF complete_json THEN SubSeq(s, start_idx, close) ELSE <<>>
        remainder     == Strip(SubSeq(s, start_idx + Len(json_str), Len(s)))
        Strategy1(res) ==
            LET way == IF ~complete_json THEN "incomplete"
                       ELSE IF CharAt(remainder, 1) = "[" THEN "multiple"
                       ELSE IF res[1] = "raise" \/ Truthy(res[2]) THEN "result"
                       ELSE "failed"
                printed ==
                    CASE way = "incomplete" ->
                           "Found incomplete JSON array, attempting to extract complete objects..."
                      [] way = "multiple" ->
                           "Multiple arrays detected, merging..."
                      [] OTHER ->
                           "Found JSON-like structure but repair failed. Trying object extraction..."
            IN  IF way = "result" THEN Outcome(res, out)
                ELSE ReconstructStrategy(s, start_idx, Append(out, printed))
    IN  IF start_idx = 0
        THEN Outcome(Return(None), Append(out, "No JSON array start found in text"))
        ELSE Strategy1(RepairJsonString(json_str))

\* lines 168-179: the code-fence unwrap and the direct parse
ExtractJsonFromText(input) ==
    LET code_match == CodeBlockSearch(input, 1)
        s          == IF code_match.found THEN Strip(code_match.group1) ELSE input
        out        == IF code_match.found
                      THEN <<"Found JSON in code block, extracting content...">>
                      ELSE <<>>
        Direct(direct) ==
            IF direct.st = "ok" THEN Outcome(Return(direct.v), out)
            ELSE IF direct.st = "JSONDecodeError" THEN BracketStrategy(s, out)
            ELSE Outcome(Raise(direct.st), out)
    IN  Direct(JsonLoads(s))

----------------------------------------------------------------------------
(* The calls. A behaviour picks a text, then makes one call on it: the     *)
(* three functions are pure, so one call from each text is every call.     *)

\* no call made yet
Pending == <<"pending">>

\* a file that does not exist, a key that a dict does not have
Absent == [absent |-> TRUE]

\* no extraction script takes part
NoFiles == input_data = <<>> /\ state = Absent /\ output = Absent

InitWith(texts) ==
    /\ text \in texts
    /\ pc = "ready"
    /\ result = Pending
    /\ stdout = <<>>
    /\ start = 0
    /\ calls = <<>>
    /\ frames = <<>>
    /\ NoFiles
    /\ attempts = <<>>

CallExtractJsonFromText ==
    /\ pc = "ready"
    /\ LET Returned(o) == result' = o.ret /\ stdout' = o.out
       IN  Returned(ExtractJsonFromText(text))
    /\ pc' = "extract_json_from_text"
    /\ UNCHANGED <<text, start, calls, frames, files, attempts>>

CallRepairJsonString ==
    /\ pc = "ready"
    /\ result' = RepairJsonString(text)
    /\ pc' = "_repair_json_string"
    /\ UNCHANGED <<text, stdout, start, calls, frames, files, attempts>>

Min(a, b) == IF a <= b THEN a ELSE b

\* the calls of _extract_complete_objects start at one of the first
\* MaxStart characters
MaxStart == 4

\* the raw object strings come back as a list of str
CallExtractCompleteObjects ==
    /\ pc = "ready"
    /\ \E start_idx \in 1..Min(Len(text) + 1, MaxStart) :
           /\ start' = start_idx
           /\ LET objects == ExtractCompleteObjects(text, start_idx)
              IN  result' = Return(PyList([k \in 1..Len(objects) |-> PyStr(objects[k])]))
    /\ pc' = "_extract_complete_objects"
    /\ UNCHANGED <<text, stdout, calls, frames, files, attempts>>

Next ==
    \/ CallExtractJsonFromText
    \/ CallRepairJsonString
    \/ CallExtractCompleteObjects

----------------------------------------------------------------------------
(* Texts *)

RECURSIVE Concat(_)
Concat(parts) == IF Len(parts) = 0 THEN <<>> ELSE Head(parts) \o Concat(Tail(parts))

\* the sequences of at most n elements of S
RECURSIVE SeqsUpTo(_, _)
SeqsUpTo(S, n) ==
    IF n = 0 THEN {<<>>}
    ELSE LET shorter == SeqsUpTo(S, n - 1)
         IN  shorter \cup {Append(q, x) : q \in shorter, x \in S}

\* one record, {"a":"<value>"}
Rec(key, value) == <<"{", Quote>> \o key \o <<Quote, ":", Quote>> \o value \o <<Quote, "}">>

\* pieces of model output: brackets, braces, a record, a number, prose,
\* white space, a code fence
Fragments ==
    { <<"[">>, <<"]">>, <<",">>, <<" ">>, <<"x">>, <<"1">>,
      Rec(<<"a">>, <<"1">>), Fence }

MaxFragments == 4

\* the texts of at most MaxFragments fragments
Init == InitWith({Concat(parts) : parts \in SeqsUpTo(Fragments, MaxFragments)})

Spec == Init /\ [][Next]_vars

\* the separator-joined concatenation of parts
RECURSIVE Join(_, _)
Join(parts, sep) ==
    IF Len(parts) = 0 THEN <<>>
    ELSE IF Len(parts) = 1 THEN parts[1]
    ELSE parts[1] \o sep \o Join(Tail(parts), sep)

\* what a string value is made of: a digit, brackets, braces, a comma,
\* a space, a code fence, an escaped quote
ValueParts ==
    { <<"1">>, <<"[">>, <<"]">>, <<"{">>, <<"}">>, <<",">>, <<" ">>,
      Fence, <<Backslash, Quote>> }

MaxValueParts == 2

Values == {Concat(parts) : parts \in SeqsUpTo(ValueParts, MaxValueParts)}

Records == {Rec(<<"a">>, v) : v \in Values}

MaxRecords == 2

\* "[" record "," record ... "]"
ArrayText(records) == <<"[">> \o Join(records, <<",">>) \o <<"]">>

\* the well-formed arrays of at most MaxRecords records
InitRecordArrays ==
    InitWith({ArrayText(rs) : rs \in SeqsUpTo(Records, MaxRecords)})

SpecRecordArrays == InitRecordArrays /\ [][Next]_vars

\* a few records: a plain value, a bracket, a brace, a fence, a nested object
FewRecords ==
    { Rec(<<"a">>, <<"1">>), Rec(<<"b">>, <<"]">>), Rec(<<"c">>, <<"}">>),
      Rec(<<"d">>, Fence),
      <<"{", Quote, "e", Quote, ":">> \o Rec(<<"f">>, <<"2">>) \o <<"}">> }

FewRecordSeqs == SeqsUpTo(FewRecords, MaxRecords)

\* an array cut in the middle of an object, after the complete objects
\* of records (at least one): "[" record "," ... "," and a proper prefix
\* of last
Truncated(records, last, cut) ==
    <<"[">> \o Concat([k \in 1..Len(records) |-> records[k] \o <<",">>])
            \o SubSeq(last, 1, cut)

TruncatedArrays ==
    UNION { {Truncated(rs, last, cut) : cut \in 1..(Len(last) - 1)} :
            rs \in FewRecordSeqs \ {<<>>}, last \in FewRecords }

InitTruncated == InitWith(TruncatedArrays)

SpecTruncated == InitTruncated /\ [][Next]_vars

\* white space between two concatenated arrays
ArraySeparators == {<<>>, <<" ">>, <<"\n">>}

\* two or three well-formed arrays, one after the other
InitConcatenated ==
    LET arrays == {ArrayText(rs) : rs \in FewRecordSeqs}
    IN  InitWith({a \o sep \o b : a \in arrays, b \in arrays, sep \in ArraySeparators}
                     \cup {a \o b \o a : a \in arrays, b \in arrays})

SpecConcatenated == InitConcatenated /\ [][Next]_vars

\* arrays of two or more records with no comma between the objects
\* ("}{" or "} {")
InitMissingComma ==
    InitWith({<<"[">> \o Join(rs, sep) \o <<"]">> :
                 rs \in SeqsUpTo(Records, MaxRecords) \ SeqsUpTo(Records, 1),
                 sep \in {<<>>, <<" ">>}})

SpecMissingComma == InitMissingComma /\ [][Next]_vars

\* record with a comma before its closing brace
WithInnerComma(record) == SubSeq(record, 1, Len(record) - 1) \o <<",", "}">>

\* arrays of records with one trailing comma: before the closing "]"
\* (with or without a space), or before the last record's closing "}"
InitTrailingComma ==
    LET seqs == SeqsUpTo(Records, MaxRecords) \ {<<>>}
    IN  InitWith({<<"[">> \o Join(rs, <<",">>) \o tail :
                     rs \in seqs, tail \in {<<",", "]">>, <<",", " ", "]">>}}
                 \cup {<<"[">> \o Join([rs EXCEPT ![Len(rs)] = WithInnerComma(@)], <<",">>)
                               \o <<"]">> :
                     rs \in seqs})

SpecTrailingComma == InitTrailingComma /\ [][Next]_vars

\* what stands between two fences: arrays (well-formed, with a trailing
\* comma, truncated, empty), a bare object, prose, a stray bracket, a
\* form feed, a single backtick
BodyParts ==
    { ArrayText(<<Rec(<<"a">>, <<"1">>)>>),
      <<"[">> \o Rec(<<"a">>, <<"1">>) \o <<",", "]">>,
      <<"[">> \o Rec(<<"a">>, <<"1">>),
      <<"[", "]">>, Rec(<<"a">>, <<"1">>),
      <<"x">>, <<"]">>, <<"\f">>, <<Backtick>> }

MaxBodyParts == 2

FenceTags == {<<>>, <<"j", "s", "o", "n">>, <<"j", "s", "o", "n", "\n">>, <<"\n">>}

\* what stands before and after a fenced block
Outside == {<<>>, <<"x">>, ArrayText(<<Rec(<<"b">>, <<"2">>)>>), Fence}

\* text, a fence, a tag, a body, a fence, text
InitFenced ==
    InitWith({before \o Fence \o tag \o Concat(body) \o Fence \o after :
                 before \in Outside, tag \in FenceTags,
                 body \in SeqsUpTo(BodyParts, MaxBodyParts), after \in Outside})

SpecFenced == InitFenced /\ [][Next]_vars

\* what a string value with brackets is made of: brackets, a letter, a
\* digit, a comma, a space
BracketValueParts == { <<"[">>, <<"]">>, <<"x">>, <<"1">>, <<",">>, <<" ">> }

\* the values of at most MaxValueParts + 1 parts that hold a bracket
BracketValues ==
    {v \in {Concat(parts) : parts \in SeqsUpTo(BracketValueParts, MaxValueParts + 1)} :
        \E k \in 1..Len(v) : v[k] \in {"[", "]"}}

\* arrays of one or two records whose values hold brackets: well-formed,
\* or with a trailing comma before the closing "]"
InitBracketValues ==
    LET seqs == {<<Rec(<<"a">>, v)>> : v \in BracketValues}
                    \cup {<<Rec(<<"a">>, v), Rec(<<"b">>, <<"[", "x", "]">>)>> :
                             v \in BracketValues}
    IN  InitWith({<<"[">> \o Join(rs, <<",">>) \o tail :
                     rs \in seqs, tail \in {<<"]">>, <<",", "]">>}})

SpecBracketValues == InitBracketValues /\ [][Next]_vars

\* three backticks, each written as the escape `
EscapedFence ==
    Concat([k \in 1..3 |-> <<Backslash, "u", "0", "0", "6", "0">>])

\* what a string value with escapes is made of: a digit, a space, a code
\* fence, a fence written with escapes, an escaped quote, an escaped
\* line feed
EscapedValueParts ==
    { <<"1">>, <<" ">>, Fence, EscapedFence, <<Backslash, Quote>>, <<Backslash, "n">> }

\* well-formed arrays of at most MaxRecords records whose values hold
\* escapes
InitEscapes ==
    LET values == {Concat(parts) : parts \in SeqsUpTo(EscapedValueParts, MaxValueParts)}
    IN  InitWith({ArrayText(rs) :
                     rs \in SeqsUpTo({Rec(<<"a">>, v) : v \in values}, MaxRecords)})

SpecEscapes == InitEscapes /\ [][Next]_vars

----------------------------------------------------------------------------
(* Concurrent invocations of extract_json_from_text. Every variable of the *)
(* function is a local of the invocation (lines 158-241 assign no global  *)
(* and no attribute), so each invocation has a frame of its own; the      *)
(* invocations share the standard output only. An invocation advances one *)
(* block of the function at a time, and the blocks of different           *)
(* invocations interleave.                                                *)

MaxInvocations == 2

Invocations == 1..MaxInvocations

\* every invocation in the frame of the first one: what the function
\* would be with its variables at module level
FrameShared(i) == 1

\* the frame that holds the locals of invocation i
FrameOf(i) == i

\* texts that take the different ways through the function
ConcurrentTexts ==
    { <<"x">>,
      ArrayText(<<Rec(<<"a">>, <<"1">>)>>),
      Fence \o ArrayText(<<Rec(<<"b">>, <<"2">>)>>) \o Fence,
      <<"x", "[">> \o Rec(<<"c">>, <<"3">>) \o <<",", "]">>,
      <<"[">> \o Rec(<<"d">>, <<"4">>) \o <<",", "{">>,
      <<"[", "1", "]", "[", "2", "]", "x">>,
      <<"[", "x", "]">> }

InitConcurrent ==
    /\ text = <<>>
    /\ pc = "concurrent"
    /\ result = Pending
    /\ stdout = <<>>
    /\ start = 0
    /\ calls \in [Invocations ->
                    {[status |-> "idle", input |-> t, outcome |-> Pending] :
                        t \in ConcurrentTexts}]
    /\ frames = [i \in Invocations |-> [pc |-> "none"]]
    /\ NoFiles
    /\ attempts = <<>>

\* the locals of invocation i
Locals(i) == frames[FrameOf(i)]

Running(i, at) == calls[i].status = "running" /\ Locals(i).pc = at

\* invocation i goes on to block at with its locals changed to fr, having
\* printed the messages printed
Goto(i, fr, at, printed) ==
    /\ frames' = [frames EXCEPT ![FrameOf(i)] = [fr EXCEPT !.pc = at]]
    /\ stdout' = stdout \o printed
    /\ UNCHANGED <<text, start, pc, result, calls, files, attempts>>

\* line 158: the call binds the parameter text
Invoke(i) ==
    /\ calls[i].status = "idle"
    /\ calls' = [calls EXCEPT ![i].status = "running"]
    /\ frames' = [frames EXCEPT ![FrameOf(i)] =
                     [pc |-> "fence", text |-> calls[i].input, start_idx |-> 0,
                      json_str |-> <<>>, complete_json |-> FALSE, ret |-> Pending]]
    /\ UNCHANGED <<text, start, pc, result, stdout, files, attempts>>

\* lines 168-173
FenceBlock(i) ==
    /\ Running(i, "fence")
    /\ LET code_match == CodeBlockSearch(Locals(i).text, 1)
       IN  IF code_match.found
           THEN Goto(i, [Locals(i) EXCEPT !.text = Strip(code_match.group1)], "direct",
                     <<"Found JSON in code block, extracting content...">>)
           ELSE Goto(i, Locals(i), "direct", <<>>)

\* lines 175-179
DirectBlock(i) ==
    /\ Running(i, "direct")
    /\ LET Direct(direct) ==
               IF direct.st = "ok"
               THEN Goto(i, [Locals(i) EXCEPT !.ret = Return(direct.v)], "done", <<>>)
               ELSE IF direct.st = "JSONDecodeError"
               THEN Goto(i, Locals(i), "find", <<>>)
               ELSE Goto(i, [Locals(i) EXCEPT !.ret = Raise(direct.st)], "done", <<>>)
       IN  Direct(JsonLoads(Locals(i).text))

\* lines 181-199
BracketBlock(i) ==
    /\ Running(i, "find")
    /\ LET start_idx == FindFrom(Locals(i).text, <<"[">>, 1)
           close     == BracketScan(Locals(i).text, start_idx, 0)
       IN  IF start_idx = 0
           THEN Goto(i, [Locals(i) EXCEPT !.ret = Return(None)], "done",
                     <<"No JSON array start found in text">>)
           ELSE Goto(i, [Locals(i) EXCEPT
                            !.start_idx = start_idx,
                            !.complete_json = close # 0,
                            !.json_str = IF close # 0
                                         THEN SubSeq(Locals(i).text, start_idx, close)
                                         ELSE <<>>],
                     "strategy1", <<>>)

\* lines 201-214
Strategy1Block(i) ==
    /\ Running(i, "strategy1")
    /\ LET fr        == Locals(i)
           remainder == Strip(SubSeq(fr.text, fr.start_idx + Len(fr.json_str), Len(fr.text)))
           Repaired1(res) ==
               IF res[1] = "raise" \/ Truthy(res[2])
               THEN Goto(i, [fr EXCEPT !.ret = res], "done", <<>>)
               ELSE Goto(i, fr, "strategy2",
                         <<"Found JSON-like structure but repair failed. Trying object extraction...">>)
       IN  IF ~fr.complete_json
           THEN Goto(i, fr, "strategy2",
                     <<"Found incomplete JSON array, attempting to extract complete objects...">>)
           ELSE IF CharAt(remainder, 1) = "["
           THEN Goto(i, fr, "strategy2", <<"Multiple arrays detected, merging...">>)
           ELSE Repaired1(RepairJsonString(fr.json_str))

\* lines 216-225
Strategy2Block(i) ==
    /\ Running(i, "strategy2")
    /\ LET fr            == Locals(i)
           objects       == ExtractCompleteObjects(fr.text, fr.start_idx + 1)
           reconstructed == <<"[", "\n">> \o JoinObjects(objects) \o <<"\n", "]">>
           Repaired2(res) ==
               IF res[1] = "raise"
               THEN Goto(i, [fr EXCEPT !.ret = res], "done", <<>>)
               ELSE IF Truthy(res[2])
               THEN Goto(i, [fr EXCEPT !.ret = res], "done",
                         <<"Recovered objects via reconstruction">>)
               ELSE Goto(i, fr, "strategy3", <<>>)
       IN  IF Len(objects) > 0
           THEN Repaired2(RepairJsonString(reconstructed))
           ELSE Goto(i, fr, "strategy3", <<>>)

\* lines 227-241
Strategy3Block(i) ==
    /\ Running(i, "strategy3")
    /\ LET fr         == Locals(i)
           all_arrays == FindAllArrays(fr.text, 1)
           Merged(merged) ==
               IF merged[1] = "raise"
               THEN Goto(i, [fr EXCEPT !.ret = merged], "done", <<>>)
               ELSE IF Len(merged[2]) > 0
               THEN Goto(i, [fr EXCEPT !.ret = Return(PyList(merged[2]))], "done",
                         <<"Merged arrays into objects">>)
               ELSE Goto(i, [fr EXCEPT !.ret = Return(None)], "done",
                         <<"No complete JSON array could be extracted">>)
       IN  Merged(IF Len(all_arrays) > 1
                  THEN MergeArrays(all_arrays, 1, <<>>)
                  ELSE <<"merged", <<>>>>)

\* the return statement, or the exception, hands the outcome to the
\* caller
ReturnBlock(i) ==
    /\ Running(i, "done")
    /\ calls' = [calls EXCEPT ![i].status = "returned", ![i].outcome = Locals(i).ret]
    /\ UNCHANGED <<text, start, pc, result, stdout, frames, files, attempts>>

NextConcurrent ==
    \E i \in Invocations :
        \/ Invoke(i)
        \/ FenceBlock(i)
        \/ DirectBlock(i)
        \/ BracketBlock(i)
        \/ Strategy1Block(i)
        \/ Strategy2Block(i)
        \/ Strategy3Block(i)
        \/ ReturnBlock(i)

SpecConcurrent == InitConcurrent /\ [][NextConcurrent]_vars

----------------------------------------------------------------------------
(* The extraction scripts simple_extract, batch_extract and retry_failed.  *)
(* A run of a script's main() reads the state file and the output file,    *)
(* asks the language model about the next pages, and writes both files     *)
(* back. What the model answers is outside the program: a run picks one    *)
(* response for each page it processes.                                    *)

Subject == <<"s", "u", "b", "j", "e", "c", "t">>

Predicate == <<"p", "r", "e", "d", "i", "c", "a", "t", "e">>

Object == <<"o", "b", "j", "e", "c", "t">>

SourcePageId == <<"s", "o", "u", "r", "c", "e", "_", "p", "a", "g", "e", "_", "i", "d">>

SourceUrl == <<"s", "o", "u", "r", "c", "e", "_", "u", "r", "l">>

SourceDomain == <<"s", "o", "u", "r", "c", "e", "_", "d", "o", "m", "a", "i", "n">>

\* a response of the language model: the message content ...
Content(cs) == <<"content", cs>>

\* ... or no answer (a status other than 200, a timeout, an exception)
IsContent(response) == response[1] = "content"

\* (triples, error), as extract_triples and process_page return them
Triples(ts) == [triples |-> PyList(ts), error |-> None]

Error(e) == [triples |-> None, error |-> e]

\* isinstance(t, dict) and 'subject' in t and 'predicate' in t and 'object' in t
HasKeys(t) == IsDict(t) /\ {Subject, Predicate, Object} \subseteq DOMAIN t[2]

\* json_str.replace("'", '"')
ReplaceQuotes(s) == [k \in 1..Len(s) |-> IF s[k] = "'" THEN Quote ELSE s[k]]

\* the validation with isinstance(t, dict) alone
ValidTriplesAnyDict(ts, page_id) ==
    LET valid_triples == SelectSeq(ts, IsDict)
    IN  [k \in 1..Len(valid_triples) |->
            PyDict(DictSet(valid_triples[k][2], SourcePageId, PyStr(page_id)))]

\* simple_extract, lines 110-116: the records with the three keys, each
\* with the page's id
ValidTriples(ts, page_id) ==
    LET valid_triples == SelectSeq(ts, HasKeys)
    IN  [k \in 1..Len(valid_triples) |->
            PyDict(DictSet(valid_triples[k][2], SourcePageId, PyStr(page_id)))]

\* simple_extract.extract_triples, from the response on
ExtractTriples(response, page_id) ==
    LET result_text == response[2]
        first == FindFrom(result_text, <<"[">>, 1)
        last  == FindLast(result_text, <<"]">>, 1)
        Loaded(r) ==
            IF r.st = "ok" THEN Triples(ValidTriples(r.v[2], page_id))
            ELSE IF r.st = "JSONDecodeError" THEN Error("JSON parse error")
            ELSE Error(r.st)
    IN  IF ~IsContent(response) THEN Error(response[2])
        ELSE IF first >= 1 /\ last > first - 1
        THEN Loaded(JsonLoads(ReplaceQuotes(SubSeq(result_text, first, last))))
        ELSE Error("No JSON array in response")

\* process_text_in_chunks: the records recovered from the model's answer,
\* without those that miss subject, predicate or object
ProcessTextInChunks(response) ==
    LET Recovered(o) ==
            IF o.ret[1] = "raise" THEN o.ret
            ELSE IF IsList(o.ret[2]) THEN Return(PyList(SelectSeq(o.ret[2][2], HasKeys)))
            ELSE Return(None)
    IN  IF ~IsContent(response) THEN Raise(response[2])
        ELSE Recovered(ExtractJsonFromText(response[2]))

\* len(content.strip()) < 50
MinContentLength == 50

\* not c.isprintable() and c not in '\n\r\t'
IsNonPrintable(c) == c \in {"^A", "^H", "\f"}

\* retry_failed.is_binary_content
IsBinaryContent(content) ==
    LET sample == SubSeq(content, 1, Min(Len(content), 200))
    IN  \/ MatchAt(content, 1, <<"P", "K">>)
        \/ Cardinality({k \in 1..Len(sample) : IsNonPrintable(sample[k])}) > 20

\* the three provenance fields of a page
WithSource(triple, page) ==
    PyDict(DictSet(DictSet(DictSet(triple[2],
        SourcePageId, PyStr(page.id)),
        SourceUrl, PyStr(page.url)),
        SourceDomain, PyStr(page.source)))

\* process_page with the loop over the triples left out
AttachNothing(ts, page) == ts

\* process_page, lines 106-110 (batch_extract) and 73-77 (retry_failed)
AttachSource(ts, page) == [k \in 1..Len(ts) |-> WithSource(ts[k], page)]

\* process_page from the call of process_text_in_chunks on; a triple that
\* is no dict takes no item assignment, and the except clause reports it
ProcessContent(page, response) ==
    LET Processed(r) ==
            IF r[1] = "raise" THEN Error(r[2])
            ELSE IF Truthy(r[2]) /\ \E k \in 1..Len(r[2][2]) : ~IsDict(r[2][2][k])
            THEN Error("TypeError")
            ELSE IF Truthy(r[2]) THEN Triples(AttachSource(r[2][2], page))
            ELSE Error("No triples extracted")
    IN  Processed(ProcessTextInChunks(response))

\* batch_extract.process_page
BatchProcessPage(page, response) ==
    IF Len(Strip(page.content)) < MinContentLength THEN Error("Content too short")
    ELSE ProcessContent(page, response)

\* retry_failed.process_page
RetryProcessPage(page, response) ==
    IF Len(Strip(page.content)) < MinContentLength THEN Error("Content too short")
    ELSE IF IsBinaryContent(page.content) THEN Error("Binary content (skipped)")
    ELSE ProcessContent(page, response)

\* the elements of a list
Elems(xs) == {xs[k] : k \in 1..Len(xs)}

\* the list as it is
RemoveNothing(xs, x) == xs

\* list.remove(x): without the first x
Remove(xs, x) ==
    LET at == CHOOSE k \in 1..Len(xs) : xs[k] = x /\ \A j \in 1..(k - 1) : xs[j] # x
    IN  SubSeq(xs, 1, at - 1) \o SubSeq(xs, at + 1, Len(xs))

\* d.get(k, default)
Get(d, k, default) == IF k \in DOMAIN d THEN d[k] ELSE default

\* pages[:1]
FirstPage(ps, n) == SubSeq(ps, 1, Min(Len(ps), 1))

\* pages[:n]
FirstPages(ps, n) == SubSeq(ps, 1, Min(Len(ps), n))

\* simple_extract.load_state (the time stamps are left out)
SimpleLoadState ==
    IF state = Absent
    THEN [processed_ids |-> <<>>, failed_ids |-> <<>>, total_triples |-> 0]
    ELSE state

\* batch_extract.load_state
BatchLoadState ==
    IF state = Absent
    THEN [phase |-> "extracting", processed_ids |-> <<>>, failed_ids |-> <<>>,
          total_triples |-> 0]
    ELSE state

\* load_output, and the default of retry_failed.main
LoadOutput ==
    IF output = Absent
    THEN [metadata |-> <<>>, pages |-> <<>>, all_triples |-> <<>>]
    ELSE output

\* simple_extract.save_output
SimpleSaveOutput(data) ==
    [data EXCEPT !.metadata =
        DictSet(DictSet(@, "total_pages", Cardinality(DOMAIN data.pages)),
                "total_triples", Len(data.all_triples))]

\* batch_extract.save_output, and the end of retry_failed.main
SaveOutput(data) ==
    [data EXCEPT !.metadata =
        DictSet(DictSet(@, "total_pages_processed", Cardinality(DOMAIN data.pages)),
                "total_triples", Len(data.all_triples))]

\* the pages that are no duplicates
AllPages == SelectSeq(input_data, LAMBDA p : ~p.is_duplicate_of)

\* the pages not processed, whether they failed or not
PagesNotProcessed(st) ==
    SelectSeq(AllPages, LAMBDA p : p.id \notin Elems(st.processed_ids))

\* the pages neither processed nor failed
PagesToProcess(st) ==
    SelectSeq(AllPages,
        LAMBDA p : p.id \notin Elems(st.processed_ids) \cup Elems(st.failed_ids))

\* the entry of a page in output["pages"], as simple_extract writes it
SimplePageInfo(page, ts) ==
    [id |-> page.id, title |-> page.title, triple_count |-> Len(ts)]

\* the entry of a page, as batch_extract and retry_failed write it
PageInfo(page, ts) ==
    [id |-> page.id, url |-> page.url, title |-> page.title,
     source |-> page.source, triple_count |-> Len(ts)]

\* the page is entered, its triples are not kept
StorePageOnly(out, info, ts) == [out EXCEPT !.pages = DictSet(@, info.id, info)]

\* output["pages"][page_id] = info; output["all_triples"].extend(triples)
Store(out, info, ts) ==
    [out EXCEPT !.pages = DictSet(@, info.id, info), !.all_triples = @ \o ts]

\* the id appended, the triples not counted
ProcessedUncounted(st, page_id, ts) ==
    [st EXCEPT !.processed_ids = Append(@, page_id)]

\* state["processed_ids"].append(page_id); state["total_triples"] += len(triples)
Processed(st, page_id, ts) ==
    [st EXCEPT !.processed_ids = Append(@, page_id),
               !.total_triples = @ + Len(ts)]

\* state["failed_ids"].append(page_id)
Failed(st, page_id) == [st EXCEPT !.failed_ids = Append(@, page_id)]

SimplePagesPerIteration == 1

BatchPagesPerIteration == 2

RetryPagesPerIteration == 1

\* simple_extract.main, lines 163-183: the loop over the batch from
\* batch[k] on
RECURSIVE SimpleLoop(_, _, _, _, _)
SimpleLoop(batch, responses, k, st, out) ==
    LET Extracted1(r) ==
            IF Truthy(r.triples)
            THEN SimpleLoop(batch, responses, k + 1,
                     Processed(st, batch[k].id, r.triples[2]),
                     Store(out, SimplePageInfo(batch[k], r.triples[2]), r.triples[2]))
            ELSE SimpleLoop(batch, responses, k + 1, Failed(st, batch[k].id), out)
    IN  IF k > Len(batch) THEN [st |-> st, out |-> out]
        ELSE Extracted1(ExtractTriples(responses[k], batch[k].id))

\* batch_extract.main, lines 167-194
RECURSIVE BatchLoop(_, _, _, _, _)
BatchLoop(batch, responses, k, st, out) ==
    LET Extracted2(r) ==
            IF Truthy(r.triples)
            THEN BatchLoop(batch, responses, k + 1,
                     Processed(st, batch[k].id, r.triples[2]),
                     Store(out, PageInfo(batch[k], r.triples[2]), r.triples[2]))
            ELSE BatchLoop(batch, responses, k + 1, Failed(st, batch[k].id), out)
    IN  IF k > Len(batch) THEN [st |-> st, out |-> out]
        ELSE Extracted2(BatchProcessPage(batch[k], responses[k]))

\* retry_failed.main, lines 158-185
RECURSIVE RetryLoop(_, _, _, _, _)
RetryLoop(batch, responses, k, st, out) ==
    LET Extracted3(r) ==
            IF Truthy(r.triples)
            THEN RetryLoop(batch, responses, k + 1,
                     [Processed(st, batch[k].id, r.triples[2])
                         EXCEPT !.failed_ids = Remove(@, batch[k].id)],
                     Store(out, PageInfo(batch[k], r.triples[2]), r.triples[2]))
            ELSE RetryLoop(batch, responses, k + 1, st, out)
    IN  IF k > Len(batch) THEN [st |-> st, out |-> out]
        ELSE Extracted3(RetryProcessPage(batch[k], responses[k]))

\* sys.exit(main())
Exit(status) == <<"exit", status>>

\* pages_by_id.get(fid): the last page with that id
PageById(fid) ==
    LET ks == {k \in 1..Len(input_data) : input_data[k].id = fid}
    IN  IF ks = {} THEN Absent
        ELSE input_data[CHOOSE k \in ks : \A j \in ks : j <= k]

\* retry_failed.main, lines 134-142: the binary pages move from failed_ids
\* to skipped_ids, from skipped_binary[k] on
RECURSIVE MoveSkipped(_, _, _)
MoveSkipped(st, skipped_binary, k) ==
    IF k > Len(skipped_binary) THEN st
    ELSE IF skipped_binary[k] \in Elems(st.failed_ids)
    THEN MoveSkipped([st EXCEPT !.failed_ids = Remove(@, skipped_binary[k]),
                                !.skipped_ids = Append(@, skipped_binary[k])],
                     skipped_binary, k + 1)
    ELSE MoveSkipped(st, skipped_binary, k + 1)

\* if "skipped_ids" not in state: state["skipped_ids"] = []
WithSkippedIds(st) ==
    IF "skipped_ids" \in DOMAIN st THEN st ELSE DictSet(st, "skipped_ids", <<>>)

\* what the language model may answer: an array of one record; an array
\* with a record that misses its object and with a number; a record that
\* has a source_page_id of its own; prose; the empty array; no answer
Str(cs) == <<Quote>> \o cs \o <<Quote>>

Member(key, value) == Str(key) \o <<":">> \o Str(value)

Obj(members) == <<"{">> \o Join(members, <<",">>) \o <<"}">>

Fact ==
    Obj(<<Member(Subject, <<"a">>), Member(Predicate, <<"b">>), Member(Object, <<"c">>)>>)

\* the record that comes with a record without object and a number
Fact2 ==
    Obj(<<Member(Subject, <<"f">>), Member(Predicate, <<"b">>), Member(Object, <<"c">>)>>)

NoObject == Obj(<<Member(Subject, <<"d">>), Member(Predicate, <<"e">>)>>)

FactWithId ==
    Obj(<<Member(Subject, <<"a">>), Member(Predicate, <<"b">>), Member(Object, <<"c">>),
          Member(SourcePageId, <<"z">>)>>)

Responses ==
    { Content(ArrayText(<<Fact>>)),
      Content(ArrayText(<<Fact2, NoObject, <<"1">>>>)),
      Content(ArrayText(<<FactWithId>>)),
      Content(<<"x">>),
      Content(<<"[", "]">>),
      <<"error", "Request timeout">> }

\* A page that keeps failing is attempted again in every run of
\* retry_failed: the runs stop at MaxAttempts attempts of a page
MaxAttempts == 3

WithinAttempts(batch) == \A k \in 1..Len(batch) : attempts[batch[k].id] < MaxAttempts

\* the attempts after process_page was called for every page of the batch
Attempted(batch) ==
    [p \in DOMAIN attempts |->
        attempts[p] + Cardinality({k \in 1..Len(batch) : batch[k].id = p})]

\* simple_extract.main
SimpleExtractMain ==
    /\ LET pages_to_process == PagesToProcess(SimpleLoadState)
           batch == FirstPages(pages_to_process, SimplePagesPerIteration)
       IN  IF pages_to_process = <<>>
           THEN result' = Exit(0) /\ UNCHANGED <<state, output, attempts>>
           ELSE \E responses \in [1..Len(batch) -> Responses] :
                    LET Done1(after) ==
                            /\ WithinAttempts(batch)
                            /\ attempts' = Attempted(batch)
                            /\ state' = after.st
                            /\ output' = SimpleSaveOutput(after.out)
                            /\ result' = Exit(IF Len(AllPages) - Len(after.st.processed_ids)
                                                   - Len(after.st.failed_ids) > 0
                                              THEN 1 ELSE 0)
                    IN  Done1(SimpleLoop(batch, responses, 1, SimpleLoadState, LoadOutput))
    /\ pc' = "simple_extract"
    /\ UNCHANGED <<text, start, stdout, calls, frames, input_data>>

\* batch_extract.main
BatchExtractMain ==
    /\ LET pages_to_process == PagesToProcess(BatchLoadState)
           batch == FirstPages(pages_to_process, BatchPagesPerIteration)
       IN  IF pages_to_process = <<>>
           THEN /\ state' = DictSet(BatchLoadState, "phase", "complete")
                /\ result' = Exit(0)
                /\ UNCHANGED <<output, attempts>>
           ELSE \E responses \in [1..Len(batch) -> Responses] :
                    LET Done2(after) ==
                            LET remaining == Len(AllPages) - Len(after.st.processed_ids)
                                                - Len(after.st.failed_ids)
                            IN  /\ WithinAttempts(batch)
                                /\ attempts' = Attempted(batch)
                                /\ state' = IF remaining > 0 THEN after.st
                                            ELSE DictSet(after.st, "phase", "complete")
                                /\ output' = SaveOutput(after.out)
                                /\ result' = Exit(IF remaining > 0 THEN 1 ELSE 0)
                    IN  Done2(BatchLoop(batch, responses, 1, BatchLoadState, LoadOutput))
    /\ pc' = "batch_extract"
    /\ UNCHANGED <<text, start, stdout, calls, frames, input_data>>

\* skipped_ids grows without end (a skipped page fails again in
\* batch_extract, and is skipped again): the runs of retry_failed stop at
\* MaxSkipped ids
MaxSkipped == 2

\* retry_failed.main; without a state file load_json raises
RetryFailedMain ==
    /\ state = Absent \/ Len(Get(state, "skipped_ids", <<>>)) < MaxSkipped
    /\ IF state = Absent
       THEN result' = Raise("FileNotFoundError") /\ UNCHANGED <<state, output, attempts>>
       ELSE LET failed_ids == Get(state, "failed_ids", <<>>)
                known == SelectSeq(failed_ids, LAMBDA fid : PageById(fid) # Absent)
                skipped_binary ==
                    SelectSeq(known, LAMBDA fid : IsBinaryContent(PageById(fid).content))
                retried ==
                    SelectSeq(known, LAMBDA fid : ~IsBinaryContent(PageById(fid).content))
                failed_pages == [k \in 1..Len(retried) |-> PageById(retried[k])]
                moved == IF skipped_binary = <<>> THEN state
                         ELSE MoveSkipped(WithSkippedIds(state), skipped_binary, 1)
                batch == FirstPages(failed_pages, RetryPagesPerIteration)
            IN  IF failed_pages = <<>>
                THEN state' = moved /\ result' = Exit(0) /\ UNCHANGED <<output, attempts>>
                ELSE \E responses \in [1..Len(batch) -> Responses] :
                         LET Done3(after) ==
                                 /\ WithinAttempts(batch)
                                 /\ attempts' = Attempted(batch)
                                 /\ state' = after.st
                                 /\ output' = SaveOutput(after.out)
                                 /\ result' = Exit(IF Len(Get(after.st, "failed_ids", <<>>)) > 0
                                                   THEN 1 ELSE 0)
                         IN  Done3(RetryLoop(batch, responses, 1, moved, LoadOutput))
    /\ pc' = "retry_failed"
    /\ UNCHANGED <<text, start, stdout, calls, frames, input_data>>

NextScripts ==
    \/ SimpleExtractMain
    \/ BatchExtractMain
    \/ RetryFailedMain

\* the input file has at most MaxPages pages
MaxPages == 2

PageIds == <<<<"p", "1">>, <<"p", "2">>, <<"p", "3">>>>

\* page contents: too short, long enough, a .docx file, control characters
Contents ==
    { [k \in 1..49 |-> "x"],
      [k \in 1..50 |-> "x"],
      <<"P", "K">> \o [k \in 1..50 |-> "x"],
      [k \in 1..21 |-> "^A"] \o [k \in 1..50 |-> "x"] }

InitScripts ==
    /\ \E n \in 1..MaxPages :
           input_data \in
               { [k \in 1..n |->
                     [id |-> PageIds[k], title |-> <<"t">>, url |-> <<"u">>,
                      source |-> <<"n">>, content |-> page[k].content,
                      is_duplicate_of |-> page[k].is_duplicate_of]] :
                 page \in [1..n -> [content : Contents, is_duplicate_of : BOOLEAN]] }
    /\ state = Absent
    /\ output = Absent
    /\ attempts = [p \in {input_data[k].id : k \in 1..Len(input_data)} |-> 0]
    /\ text = <<>>
    /\ start = 0
    /\ pc = "ready"
    /\ result = Pending
    /\ stdout = <<>>
    /\ calls = <<>>
    /\ frames = <<>>

SpecScripts == InitScripts /\ [][NextScripts]_vars

\* pieces of text around objects: a stray closing brace, stray brackets,
\* prose
StrayParts == { <<"}">>, <<"[">>, <<"]">>, <<"x">>, Rec(<<"a">>, <<"1">>) }

\* the texts of at most MaxFragments of these pieces
InitStrayBraces == InitWith({Concat(parts) : parts \in SeqsUpTo(StrayParts, MaxFragments)})

SpecStrayBraces == InitStrayBraces /\ [][Next]_vars

\* arrays that stand one after the other in a text: empty, of a number,
\* of a record, with a trailing comma, of prose
ArrayPieces ==
    { <<"[", "]">>, <<"[", "1", "]">>, ArrayText(<<Rec(<<"a">>, <<"1">>)>>),
      <<"[", "1", ",", "]">>, <<"[", "x", "]">> }

\* what stands between two of them
Between == { <<>>, <<" ">>, <<"x">>, <<",">>, <<"\n">> }

\* two or three arrays with something between them
InitSeveralArrays ==
    InitWith({a \o s \o b : a \in ArrayPieces, s \in Between, b \in ArrayPieces}
                 \cup {a \o s \o b \o t \o c :
                          a \in ArrayPieces, s \in Between, b \in ArrayPieces,
                          t \in Between, c \in ArrayPieces})

SpecSeveralArrays == InitSeveralArrays /\ [][Next]_vars

\* a record whose key is a bare word
BareRec(key, value) == <<"{">> \o key \o <<":", Quote>> \o value \o <<Quote, "}">>

\* pieces of a string value: a digit, a comma, a word with a colon, a space
KeyValueParts == { <<"1">>, <<",">>, <<"b", ":">>, <<" ">> }

BareRecords ==
    {BareRec(k, Concat(parts)) : k \in {<<"a">>, <<" ", "a", " ">>},
                                 parts \in SeqsUpTo(KeyValueParts, MaxValueParts)}

\* arrays of one to MaxRecords records with bare-word keys
InitUnquotedKeys ==
    InitWith({ArrayText(rs) : rs \in SeqsUpTo(BareRecords, MaxRecords) \ {<<>>}})

SpecUnquotedKeys == InitUnquotedKeys /\ [][Next]_vars

----------------------------------------------------------------------------
(* extract_json_from_text one loop iteration at a time. The invocation    *)
(* has the frame of the concurrent section, with the variables of the two *)
(* for loops in it: i and bracket_count of lines 187-199, and the locals  *)
(* of _extract_complete_objects (lines 124-128). A step is a block of the *)
(* function or one iteration of a loop.                                   *)

\* pieces of text with the characters the scanners look at
StepParts ==
    { <<"[">>, <<"]">>, <<"{">>, <<"}">>, <<Quote>>, <<Backslash>>, <<"x">>,
      <<",">>, Rec(<<"a">>, <<"1">>), Fence }

MaxStepParts == 3

InitStepwise ==
    /\ text \in {Concat(parts) : parts \in SeqsUpTo(StepParts, MaxStepParts)}
    /\ pc = "stepwise"
    /\ result = Pending
    /\ stdout = <<>>
    /\ start = 0
    /\ calls = <<[status |-> "idle", input |-> text, outcome |-> Pending]>>
    /\ frames = <<[pc |-> "none"]>>
    /\ NoFiles
    /\ attempts = <<>>

\* line 158: the call binds the parameter text
StepInvoke ==
    /\ calls[1].status = "idle"
    /\ calls' = [calls EXCEPT ![1].status = "running"]
    /\ frames' = [frames EXCEPT ![1] =
                     [pc |-> "fence", text |-> calls[1].input, start_idx |-> 0,
                      json_str |-> <<>>, complete_json |-> FALSE, ret |-> Pending,
                      i |-> 0, bracket_count |-> 0, objects |-> <<>>, obj_start |-> 0,
                      brace_count |-> 0, in_string |-> FALSE, escape_next |-> FALSE]]
    /\ UNCHANGED <<text, start, pc, result, stdout, files, attempts>>

\* lines 181-189: text.find('['), and the for loop is entered
FindStart ==
    /\ Running(1, "find")
    /\ LET start_idx == FindFrom(Locals(1).text, <<"[">>, 1)
       IN  IF start_idx = 0
           THEN Goto(1, [Locals(1) EXCEPT !.ret = Return(None)], "done",
                     <<"No JSON array start found in text">>)
           ELSE Goto(1, [Locals(1) EXCEPT !.start_idx = start_idx, !.i = start_idx,
                                          !.bracket_count = 0],
                     "bracket_loop", <<>>)

\* the locals after the iteration of the loop of lines 190-199 at index
\* fr.i; the loop is left (pc "strategy1") at the matching bracket and at
\* the end of range(start_idx, len(text))
BracketStep(fr) ==
    IF fr.i > Len(fr.text) THEN [fr EXCEPT !.pc = "strategy1"]
    ELSE IF fr.text[fr.i] = "["
    THEN [fr EXCEPT !.bracket_count = @ + 1, !.i = @ + 1]
    ELSE IF fr.text[fr.i] = "]"
    THEN IF fr.bracket_count - 1 = 0
         THEN [fr EXCEPT !.bracket_count = 0,
                         !.json_str = SubSeq(fr.text, fr.start_idx, fr.i),
                         !.complete_json = TRUE,
                         !.pc = "strategy1"]
         ELSE [fr EXCEPT !.bracket_count = @ - 1, !.i = @ + 1]
    ELSE [fr EXCEPT !.i = @ + 1]

BracketLoop ==
    /\ Running(1, "bracket_loop")
    /\ LET Stepped(fr) == Goto(1, fr, fr.pc, <<>>)
       IN  Stepped(BracketStep(Locals(1)))

\* lines 217-218 and 124-130: _extract_complete_objects is called and its
\* for loop is entered
ObjectsStart ==
    /\ Running(1, "strategy2")
    /\ Goto(1, [Locals(1) EXCEPT !.i = Locals(1).start_idx + 1, !.objects = <<>>,
                                 !.obj_start = 0, !.brace_count = 0,
                                 !.in_string = FALSE, !.escape_next = FALSE],
            "brace_loop", <<>>)

\* a scanner whose index stays where it is inside a string literal
BraceStepStay(fr) ==
    IF fr.i <= Len(fr.text) /\ fr.in_string THEN fr
    ELSE IF fr.i > Len(fr.text) THEN [fr EXCEPT !.pc = "reconstruct"]
    ELSE [fr EXCEPT !.i = @ + 1, !.in_string = fr.text[fr.i] = Quote]

\* the locals after the iteration of the loop of lines 130-153 at index
\* fr.i; the loop is left (pc "reconstruct") at the end of the range
BraceStep(fr) ==
    IF fr.i > Len(fr.text) THEN [fr EXCEPT !.pc = "reconstruct"]
    ELSE LET ch == fr.text[fr.i]
         IN  IF fr.escape_next
             THEN [fr EXCEPT !.escape_next = FALSE, !.i = @ + 1]
             ELSE IF ch = Backslash /\ fr.in_string
             THEN [fr EXCEPT !.escape_next = TRUE, !.i = @ + 1]
             ELSE IF ch = Quote
             THEN [fr EXCEPT !.in_string = ~fr.in_string, !.i = @ + 1]
             ELSE IF fr.in_string
             THEN [fr EXCEPT !.i = @ + 1]
             ELSE IF ch = "{"
             THEN [fr EXCEPT !.obj_start = IF fr.brace_count = 0 THEN fr.i ELSE @,
                             !.brace_count = @ + 1,
                             !.i = @ + 1]
             ELSE IF ch = "}"
             THEN IF fr.brace_count - 1 = 0 /\ fr.obj_start # 0
                  THEN [fr EXCEPT !.brace_count = 0,
                                  !.objects = Append(@, SubSeq(fr.text, fr.obj_start, fr.i)),
                                  !.obj_start = 0,
                                  !.i = @ + 1]
                  ELSE [fr EXCEPT !.brace_count = @ - 1, !.i = @ + 1]
             ELSE [fr EXCEPT !.i = @ + 1]

BraceLoop ==
    /\ Running(1, "brace_loop")
    /\ LET Stepped(fr) == Goto(1, fr, fr.pc, <<>>)
       IN  Stepped(BraceStep(Locals(1)))

\* lines 155 and 220-225: the objects are returned and reassembled
Reconstruct ==
    /\ Running(1, "reconstruct")
    /\ LET fr            == Locals(1)
           reconstructed == <<"[", "\n">> \o JoinObjects(fr.objects) \o <<"\n", "]">>
           Repaired2(res) ==
               IF res[1] = "raise"
               THEN Goto(1, [fr EXCEPT !.ret = res], "done", <<>>)
               ELSE IF Truthy(res[2])
               THEN Goto(1, [fr EXCEPT !.ret = res], "done",
                         <<"Recovered objects via reconstruction">>)
               ELSE Goto(1, fr, "strategy3", <<>>)
       IN  IF Len(fr.objects) > 0
           THEN Repaired2(RepairJsonString(reconstructed))
           ELSE Goto(1, fr, "strategy3", <<>>)

NextStepwise ==
    \/ StepInvoke
    \/ FenceBlock(1)
    \/ DirectBlock(1)
    \/ FindStart
    \/ BracketLoop
    \/ Strategy1Block(1)
    \/ ObjectsStart
    \/ BraceLoop
    \/ Reconstruct
    \/ Strategy3Block(1)
    \/ ReturnBlock(1)

SpecStepwise == InitStepwise /\ [][NextStepwise]_vars

\* the blocks that only call the library: json.loads, the regular
\* expressions of _repair_json_string and re.findall
AtLibraryCall ==
    /\ calls[1].status = "running"
    /\ frames[1].pc \in {"direct", "strategy1", "reconstruct", "strategy3"}

\* the steps of the function's own control flow and of its two loops
OwnStep ==
    \/ StepInvoke
    \/ FenceBlock(1)
    \/ FindStart
    \/ BracketLoop
    \/ ObjectsStart
    \/ BraceLoop
    \/ ReturnBlock(1)

\* the interpreter goes on executing the one thread of the invocation,
\* and every call of the library returns
FairStepwise == SpecStepwise /\ WF_vars(OwnStep) /\ []<>~AtLibraryCall

\* an input file of three pages, one more than a run of batch_extract
\* takes: texts long enough for the model, some marked as duplicates; the
\* first page may be a .docx file
InitThreePages ==
    /\ input_data \in
           { [k \in 1..3 |->
                 [id |-> PageIds[k], title |-> <<"t">>, url |-> <<"u">>,
                  source |-> <<"n">>,
                  content |-> IF page[k].binary THEN <<"P", "K">> \o [j \in 1..50 |-> "x"]
                              ELSE [j \in 1..50 |-> "x"],
                  is_duplicate_of |-> page[k].is_duplicate_of]] :
             page \in { q \in [1..3 -> [binary : BOOLEAN, is_duplicate_of : BOOLEAN]] :
                           ~q[2].binary /\ ~q[3].binary } }
    /\ state = Absent
    /\ output = Absent
    /\ attempts = [p \in {input_data[k].id : k \in 1..Len(input_data)} |-> 0]
    /\ text = <<>>
    /\ start = 0
    /\ pc = "ready"
    /\ result = Pending
    /\ stdout = <<>>
    /\ calls = <<>>
    /\ frames = <<>>

SpecThreePages == InitThreePages /\ [][NextScripts]_vars

\* batch_extract alone, run after run from the empty state, on an input of
\* up to MaxBatchPages pages with text, some marked as duplicates
MaxBatchPages == 4

BatchPageIds ==
    <<<<"p", "1">>, <<"p", "2">>, <<"p", "3">>, <<"p", "4">>, <<"p", "5">>>>

InitBatchOnly ==
    /\ \E n \in 0..MaxBatchPages :
           input_data \in
               { [k \in 1..n |->
                     [id |-> BatchPageIds[k], title |-> <<"t">>, url |-> <<"u">>,
                      source |-> <<"n">>, content |-> [j \in 1..50 |-> "x"],
                      is_duplicate_of |-> duplicate[k]]] :
                 duplicate \in [1..n -> BOOLEAN] }
    /\ state = Absent
    /\ output = Absent
    /\ attempts = [p \in {input_data[k].id : k \in 1..Len(input_data)} |-> 0]
    /\ text = <<>>
    /\ start = 0
    /\ pc = "ready"
    /\ result = Pending
    /\ stdout = <<>>
    /\ calls = <<>>
    /\ frames = <<>>

SpecBatchOnly == InitBatchOnly /\ [][BatchExtractMain]_vars

\* a run that is stopped from outside leaves no exit status
Killed == <<"killed">>

\* batch_extract.main stopped between save_state(state) of line 197 and
\* save_output(output) of line 198: the state file is written, the output
\* file is the one the run found
BatchExtractInterrupted ==
    /\ LET pages_to_process == PagesToProcess(BatchLoadState)
           batch == FirstPages(pages_to_process, BatchPagesPerIteration)
       IN  /\ pages_to_process # <<>>
           /\ \E responses \in [1..Len(batch) -> Responses] :
                  LET Stopped2(after) ==
                          /\ WithinAttempts(batch)
                          /\ attempts' = Attempted(batch)
                          /\ state' = after.st
                  IN  Stopped2(BatchLoop(batch, responses, 1, BatchLoadState, LoadOutput))
    /\ result' = Killed
    /\ pc' = "batch_extract"
    /\ UNCHANGED <<text, start, stdout, calls, frames, input_data, output>>

\* retry_failed.main stopped between save_json(STATE_FILE, state) of line
\* 189 and save_json(OUTPUT_FILE, output) of line 193
RetryFailedInterrupted ==
    /\ state # Absent
    /\ Len(Get(state, "skipped_ids", <<>>)) < MaxSkipped
    /\ LET failed_ids == Get(state, "failed_ids", <<>>)
           known == SelectSeq(failed_ids, LAMBDA fid : PageById(fid) # Absent)
           skipped_binary ==
               SelectSeq(known, LAMBDA fid : IsBinaryContent(PageById(fid).content))
           retried ==
               SelectSeq(known, LAMBDA fid : ~IsBinaryContent(PageById(fid).content))
           failed_pages == [k \in 1..Len(retried) |-> PageById(retried[k])]
           moved == IF skipped_binary = <<>> THEN state
                    ELSE MoveSkipped(WithSkippedIds(state), skipped_binary, 1)
           batch == FirstPages(failed_pages, RetryPagesPerIteration)
       IN  /\ failed_pages # <<>>
           /\ \E responses \in [1..Len(batch) -> Responses] :
                  LET Stopped3(after) ==
                          /\ WithinAttempts(batch)
                          /\ attempts' = Attempted(batch)
                          /\ state' = after.st
                  IN  Stopped3(RetryLoop(batch, responses, 1, moved, LoadOutput))
    /\ result' = Killed
    /\ pc' = "retry_failed"
    /\ UNCHANGED <<text, start, stdout, calls, frames, input_data, output>>

NextInterrupted ==
    \/ BatchExtractMain
    \/ RetryFailedMain
    \/ BatchExtractInterrupted
    \/ RetryFailedInterrupted

SpecInterrupted == InitScripts /\ [][NextInterrupted]_vars

----------------------------------------------------------------------------
(* phi3_judge. The state file lists the cases judged (classified, deduped) *)
(* and the two output files hold their results; a run reads them, judges   *)
(* the cases that are left one by one, and writes the state file and then  *)
(* the output file after each. input_data holds the ambiguous pages and    *)
(* the MEDIUM pairs, state the state file, output the results of the two   *)
(* JSON files (a file that does not exist reads as no results; the CSV     *)
(* copies are never read), frames the locals of the run in progress.       *)

Word(letters) == [k \in 1..Len(letters) |-> letters[k]]

LowerCase ==
    <<"a", "b", "c", "d", "e", "f", "g", "h", "i", "j", "k", "l", "m",
      "n", "o", "p", "q", "r", "s", "t", "u", "v", "w", "x", "y", "z">>

UpperCase ==
    <<"A", "B", "C", "D", "E", "F", "G", "H", "I", "J", "K", "L", "M",
      "N", "O", "P", "Q", "R", "S", "T", "U", "V", "W", "X", "Y", "Z">>

\* str.upper()
Upper(s) ==
    [k \in 1..Len(s) |->
        IF \E n \in 1..26 : LowerCase[n] = s[k]
        THEN UpperCase[CHOOSE n \in 1..26 : LowerCase[n] = s[k]]
        ELSE s[k]]

Agree == <<"A", "G", "R", "E", "E">>

Disagree == <<"D", "I", "S">> \o Agree

Uncertain == <<"U", "N", "C", "E", "R", "T", "A", "I", "N">>

\* w in s
Contains(s, w) == FindFrom(s, w, 1) # 0

\* response.split()[0].upper().strip(".:,"), for a response with a word
FirstWord(response) ==
    LET from == SkipSpace(response, 1)
        to   == CHOOSE k \in from..Len(response) :
                    /\ \A j \in from..k : ~IsSpace(response[j])
                    /\ k = Len(response) \/ IsSpace(response[k + 1])
        word == Upper(SubSeq(response, from, to))
        Punct(c) == c \in {".", ":", ","}
        first == CHOOSE k \in 1..(Len(word) + 1) :
                     /\ \A j \in 1..(k - 1) : Punct(word[j])
                     /\ k > Len(word) \/ ~Punct(word[k])
        last  == CHOOSE k \in 0..Len(word) :
                     /\ \A j \in (k + 1)..Len(word) : Punct(word[j])
                     /\ k = 0 \/ ~Punct(word[k])
    IN  SubSeq(word, first, last)

\* parse_verdict
ParseVerdict(response) ==
    LET upper == Upper(response)
    IN  IF Contains(upper, Agree) /\ ~Contains(upper, Disagree) THEN Return(Agree)
        ELSE IF Contains(upper, Disagree) THEN Return(Disagree)
        ELSE IF Contains(upper, Uncertain) THEN Return(Uncertain)
        ELSE IF response = <<>> THEN Return(Uncertain)
        ELSE IF \A k \in 1..Len(response) : IsSpace(response[k])
        THEN Raise("IndexError")
        ELSE IF FirstWord(response) \in {Agree, Disagree, Uncertain}
        THEN Return(FirstWord(response))
        ELSE Return(Uncertain)

\* call_phi3: the content of the answer, stripped, or None when the request
\* fails
CallPhi3(answer) == IF answer = None THEN None ELSE Strip(answer)

\* what Phi-3 may answer; None stands for a request that failed
Answers ==
    { Agree, Word(<<"d", "i", "s", "a", "g", "r", "e", "e", ".", "\n", "x">>),
      Word(<<"x">>), Word(<<" ">>), None }

\* judge_classification and judge_dedup_pair: the result for one case
JudgeCase(case, response) ==
    IF response = None
    THEN [case |-> case, verdict |-> Word(<<"E", "R", "R", "O", "R">>)]
    ELSE [case |-> case, verdict |-> ParseVerdict(response)[2],
          raw_response |-> response]

\* load_state
JudgeLoadState ==
    IF state = Absent THEN [classified |-> <<>>, deduped |-> <<>>] ELSE state

\* the results in the output file of a part, [] when there is no file
PreviousResults(part) ==
    IF output # Absent /\ part \in DOMAIN output THEN output[part] ELSE <<>>

\* the cases of a part: the AMBIGUOUS pages, the MEDIUM pairs
CasesOf(part) == IF part = "classified" THEN input_data.ambiguous ELSE input_data.medium

\* lines 385-401 and 418-435: the cases of the part that the state does
\* not list, and the results the part's output file holds
PartFrame(part, st) ==
    [pc |-> "loop", part |-> part, state |-> st,
     remaining |-> SelectSeq(CasesOf(part), LAMBDA c : c \notin Elems(st[part])),
     i |-> 1, results |-> PreviousResults(part)]

\* main, lines 359-401: the test request, the loads, and Part 1 begins
JudgeStart ==
    /\ pc \in {"ready", "phi3_judge"}
    /\ frames = <<>>
    /\ \E test_resp \in {Agree, None} :
           IF CallPhi3(test_resp) = None
           THEN frames' = frames /\ result' = Return(None)
           ELSE /\ frames' = <<PartFrame("classified", JudgeLoadState)>>
                /\ result' = Pending
    /\ pc' = "phi3_judge"
    /\ UNCHANGED <<text, start, stdout, calls, files, attempts>>

Judging(at) == pc = "phi3_judge" /\ frames # <<>> /\ frames[1].pc = at

\* lines 403-411 and 437-441: the next case of the part is judged, its
\* result and its name are appended
JudgeNext ==
    /\ Judging("loop")
    /\ frames[1].i <= Len(frames[1].remaining)
    /\ \E answer \in Answers :
           LET fr   == frames[1]
               case == fr.remaining[fr.i]
           IN  frames' = <<[fr EXCEPT
                   !.results = Append(@, JudgeCase(case, CallPhi3(answer))),
                   !.state = [@ EXCEPT ![fr.part] = Append(@, case)],
                   !.pc = "save_state"]>>
    /\ UNCHANGED <<text, start, pc, result, stdout, calls, files, attempts>>

\* lines 414 and 443: save_state(state)
JudgeSaveState ==
    /\ Judging("save_state")
    /\ state' = frames[1].state
    /\ frames' = <<[frames[1] EXCEPT !.pc = "write"]>>
    /\ UNCHANGED <<text, start, pc, result, stdout, calls, input_data, output, attempts>>

\* lines 415 and 444: write_classification_outputs, write_dedup_outputs
JudgeWriteOutputs ==
    /\ Judging("write")
    /\ output' = DictSet(IF output = Absent THEN <<>> ELSE output,
                         frames[1].part, frames[1].results)
    /\ frames' = <<[frames[1] EXCEPT !.pc = "loop", !.i = @ + 1]>>
    /\ UNCHANGED <<text, start, pc, result, stdout, calls, input_data, state, attempts>>

\* the loop of a part is over: Part 2 begins (lines 417-435), or main
\* returns (lines 446-448)
JudgePartDone ==
    /\ Judging("loop")
    /\ frames[1].i > Len(frames[1].remaining)
    /\ IF frames[1].part = "classified"
       THEN frames' = <<PartFrame("deduped", frames[1].state)>> /\ result' = result
       ELSE frames' = <<>> /\ result' = Return(None)
    /\ UNCHANGED <<text, start, pc, stdout, calls, files, attempts>>

\* the run is stopped from outside: its locals are gone, the files stay
JudgeInterrupted ==
    /\ pc = "phi3_judge"
    /\ frames # <<>>
    /\ frames' = <<>>
    /\ result' = Killed
    /\ UNCHANGED <<text, start, pc, stdout, calls, files, attempts>>

NextJudge ==
    \/ JudgeStart
    \/ JudgeNext
    \/ JudgeSaveState
    \/ JudgeWriteOutputs
    \/ JudgePartDone
    \/ JudgeInterrupted

\* at most MaxCases ambiguous pages and MaxCases MEDIUM pairs
MaxCases == 2

CaseNames == <<<<"p", "1">>, <<"p", "2">>, <<"p", "3">>>>

PairNames == <<<<"p", "1", ":", "p", "2">>, <<"p", "2", ":", "p", "3">>,
               <<"p", "1", ":", "p", "3">>>>

InitJudge ==
    /\ \E a, m \in 0..MaxCases :
           input_data = [ambiguous |-> SubSeq(CaseNames, 1, a),
                         medium |-> SubSeq(PairNames, 1, m)]
    /\ state = Absent
    /\ output = Absent
    /\ attempts = <<>>
    /\ text = <<>>
    /\ start = 0
    /\ pc = "ready"
    /\ result = Pending
    /\ stdout = <<>>
    /\ calls = <<>>
    /\ frames = <<>>

SpecJudge == InitJudge /\ [][NextJudge]_vars

----------------------------------------------------------------------------
(* nhs_scraper. One run of main does the work of the phase the state file  *)
(* names and of the phases that follow as far as their targets are met.    *)
(* The model counts: discovered_urls gives each domain its number of URLs, *)
(* failed_urls is the number of URLs that failed, the output file is the   *)
(* number of scraped pages and the number of duplicate pairs (each pair    *)
(* adds one page with is_duplicate_of set, which no count below includes). *)

\* DOMAINS, lines 61-65
Domains == {"england.nhs.uk", "digital.nhs.uk", "hee.nhs.uk"}

\* TARGET_PAGES (500), TARGET_DUPLICATES (30), PAGES_PER_ITERATION (15), and
\* the numbers of lines 294 (200 URLs of a domain) and 303 (300 URLs in
\* all), scaled down so that a few runs meet them
TargetPages == 3

TargetDuplicates == 2

ScraperPagesPerIteration == 2

UrlsWanted == 2

UrlsToScrape == 3

\* query_cdx_api answers with at most MaxUrls URLs of a domain
MaxUrls == 2

Phases == <<"url_discovery", "scraping", "duplicates", "complete">>

\* load_state, lines 111-123
ScraperLoadState ==
    IF state = Absent
    THEN [phase |-> "url_discovery", discovered_urls |-> [d \in {} |-> 0],
          scraped_count |-> 0, failed_urls |-> 0,
          duplicate_pairs_created |-> 0]
    ELSE state

\* load_output, lines 134-148
ScraperLoadOutput ==
    IF output = Absent THEN [pages |-> 0, duplicate_pairs |-> 0] ELSE output

RECURSIVE SumOver(_, _)
SumOver(f, ds) ==
    IF ds = {} THEN 0
    ELSE LET d == CHOOSE x \in ds : TRUE
         IN  f[d] + SumOver(f, ds \ {d})

\* line 299: sum(len(urls) for urls in state["discovered_urls"].values())
TotalUrls(urls) == SumOver(urls, DOMAIN urls)

\* lines 293-297: a domain is queried when it has no entry or fewer than 200
\* URLs, and the answer replaces its entry
Queried(st) ==
    {urls \in [Domains -> 0..MaxUrls] :
        \A d \in Domains :
            (d \in DOMAIN st.discovered_urls /\ st.discovered_urls[d] >= UrlsWanted)
                => urls[d] = st.discovered_urls[d]}

\* do_url_discovery, lines 289-308: a run is [st, out, saved]: the state and
\* the output in memory, and whether save_output was called
DoUrlDiscovery(st) ==
    {[st EXCEPT !.discovered_urls = urls,
                !.phase = IF TotalUrls(urls) >= UrlsToScrape THEN "scraping" ELSE @] :
        urls \in Queried(st)}

\* lines 338-344: the URLs neither scraped nor failed
Untried(st, out) == TotalUrls(st.discovered_urls) - out.pages - st.failed_urls

\* a reading in which a run that used up the URLs short of the target goes
\* back to ask for more
DoScrapingRediscover(st, out) ==
    {[st |-> [st EXCEPT !.failed_urls = @ + skipped,
                        !.scraped_count = out.pages + fetched,
                        !.phase = IF out.pages + fetched >= TargetPages
                                  THEN "duplicates"
                                  ELSE IF fetched + skipped = Untried(st, out)
                                  THEN "url_discovery" ELSE @],
      out |-> [out EXCEPT !.pages = @ + fetched],
      saved |-> TRUE] :
        <<fetched, skipped>> \in
            {fs \in (0..ScraperPagesPerIteration) \X (0..(MaxUrls * Cardinality(Domains))) :
                /\ fs[1] + fs[2] <= Untried(st, out)
                /\ fs[1] < ScraperPagesPerIteration
                       => fs[1] + fs[2] = Untried(st, out)}}

\* do_scraping, lines 311-381: fetched pages are added until the URLs run out
\* or PAGES_PER_ITERATION pages were fetched; skipped the URLs that failed
DoScraping(st, out) ==
    IF out.pages >= TargetPages
    THEN {[st |-> [st EXCEPT !.phase = "duplicates"], out |-> out, saved |-> FALSE]}
    ELSE {[st |-> [st EXCEPT !.failed_urls = @ + skipped,
                             !.scraped_count = out.pages + fetched,
                             !.phase = IF out.pages + fetched >= TargetPages
                                       THEN "duplicates" ELSE @],
           out |-> [out EXCEPT !.pages = @ + fetched],
           saved |-> TRUE] :
             <<fetched, skipped>> \in
                 {fs \in (0..ScraperPagesPerIteration) \X (0..(MaxUrls * Cardinality(Domains))) :
                     /\ fs[1] + fs[2] <= Untried(st, out)
                     /\ fs[1] < ScraperPagesPerIteration
                            => fs[1] + fs[2] = Untried(st, out)}}

\* do_duplicates, lines 384-464: pairs are created for shuffled candidates
\* that have no duplicate yet, until the target is met or they run out
DoDuplicates(st, out) ==
    IF out.duplicate_pairs >= TargetDuplicates
    THEN {[st |-> [st EXCEPT !.phase = "complete"], out |-> out, saved |-> FALSE]}
    ELSE {[st |-> [st EXCEPT !.duplicate_pairs_created = out.duplicate_pairs + created,
                             !.phase = IF out.duplicate_pairs + created >= TargetDuplicates
                                       THEN "complete" ELSE @],
           out |-> [out EXCEPT !.duplicate_pairs = @ + created],
           saved |-> TRUE] :
             created \in 0..Min(TargetDuplicates - out.duplicate_pairs,
                                out.pages - out.duplicate_pairs)}

\* main, lines 500-501
AfterDiscovery ==
    IF ScraperLoadState.phase = "url_discovery"
    THEN DoUrlDiscovery(ScraperLoadState)
    ELSE {ScraperLoadState}

\* main, lines 503-504
AfterScraping(st, out) ==
    IF st.phase = "scraping"
    THEN DoScraping(st, out)
    ELSE {[st |-> st, out |-> out, saved |-> FALSE]}

\* main, lines 506-507
AfterDuplicates(run) ==
    IF run.st.phase = "duplicates"
    THEN {[r EXCEPT !.saved = @ \/ run.saved] : r \in DoDuplicates(run.st, run.out)}
    ELSE {run}

\* main, lines 487-519: the phases in turn, then the exit status
ScraperMain ==
    /\ pc \in {"ready", "nhs_scraper"}
    /\ \E st \in AfterDiscovery :
       \E scraped \in AfterScraping(st, ScraperLoadOutput) :
       \E run \in AfterDuplicates(scraped) :
           /\ state' = IF ScraperLoadState.phase = "complete" THEN state ELSE run.st
           /\ output' = IF run.saved THEN run.out ELSE output
           /\ result' = Return(IF run.st.phase = "complete" THEN 0 ELSE 1)
    /\ pc' = "nhs_scraper"
    /\ UNCHANGED <<text, start, stdout, calls, frames, input_data, attempts>>

\* a run stopped from outside between the save_state and the save_output of
\* do_scraping (lines 377-378) or of do_duplicates (lines 460-461)
ScraperInterrupted ==
    /\ pc \in {"ready", "nhs_scraper"}
    /\ \E st \in AfterDiscovery :
       \E scraped \in AfterScraping(st, ScraperLoadOutput) :
           \/ /\ scraped.saved
              /\ state' = scraped.st
              /\ output' = output
           \/ \E run \in DoDuplicates(scraped.st, scraped.out) :
                  /\ scraped.st.phase = "duplicates"
                  /\ run.saved
                  /\ state' = run.st
                  /\ output' = IF scraped.saved THEN scraped.out ELSE output
    /\ result' = Killed
    /\ pc' = "nhs_scraper"
    /\ UNCHANGED <<text, start, stdout, calls, frames, input_data, attempts>>

NextScraper ==
    \/ ScraperMain
    \/ ScraperInterrupted

InitScraper ==
    /\ NoFiles
    /\ attempts = <<>>
    /\ text = <<>>
    /\ start = 0
    /\ pc = "ready"
    /\ result = Pending
    /\ stdout = <<>>
    /\ calls = <<>>
    /\ frames = <<>>

SpecScraper == InitScraper /\ [][NextScraper]_vars

----------------------------------------------------------------------------
(* Claims *)

Extracted == pc = "extract_json_from_text"

Repaired == pc = "_repair_json_string"

Chars(s) == {s[k] : k \in 1..Len(s)}

\* v is a list whose elements are all dicts
IsRecordList(v) == IsList(v) /\ \A k \in 1..Len(v[2]) : IsDict(v[2][k])

\* s parses, strictly, as a JSON array of objects
IsRecordArrayText(s) ==
    LET r == JsonLoads(s) IN r.st = "ok" /\ IsRecordList(r.v)

\* C1: for every string input, extract_json_from_text and
\* _repair_json_string return (a value or None); no exception of a parse
\* reaches the caller.
C1_NeverRaises == (Extracted \/ Repaired) => result[1] = "return"

\* C3: every result of extract_json_from_text other than the failure
\* signal is a list whose elements are record mappings.
C3_ResultIsRecordList ==
    (Extracted /\ result[1] = "return" /\ result[2] # None)
        => IsRecordList(result[2])

\* C4: for every text without a "[", extract_json_from_text returns the
\* failure signal and no other value.
C4_NoBracketIsFailure ==
    (Extracted /\ "[" \notin Chars(text)) => result = Return(None)

\* the text is the empty array "[]" with prose (characters that are no
\* bracket, brace, quote or backtick) before and after it
IsEmptyArrayInProse(s) ==
    \E i \in 1..Len(s) :
        /\ MatchAt(s, i, <<"[", "]">>)
        /\ \A k \in (1..Len(s)) \ {i, i + 1} : s[k] \in {"x", " ", "\n"}

\* the text is one fenced block that holds the empty array "[]"
IsFencedEmptyArray(s) ==
    /\ Len(s) >= 8
    /\ MatchAt(s, 1, Fence)
    /\ MatchAt(s, Len(s) - 2, Fence)
    /\ \E i \in 4..(Len(s) - 4) :
           /\ MatchAt(s, i, <<"[", "]">>)
           /\ \A k \in (4..(Len(s) - 3)) \ {i, i + 1} : s[k] \in {" ", "\n"}

\* C5: when the array found in the text is the empty array (the text is
\* "[]", or a fence around it, or "[]" with prose around it),
\* extract_json_from_text returns the empty list.
C5_EmptyArrayIsEmptyList ==
    (Extracted /\ (IsEmptyArrayInProse(text) \/ IsFencedEmptyArray(text)))
        => result = Return(PyList(<<>>))

\* C2: for every text that is a well-formed JSON array of records,
\* whatever characters its string values hold, extract_json_from_text
\* returns exactly those records, in order and unchanged.
C2_WellFormedArrayUnchanged ==
    (Extracted /\ IsRecordArrayText(text)) => result = Return(JsonLoads(text).v)

\* The objects of an array read one after the other by the JSON grammar
\* from s[i] on, commas and white space between them skipped, up to the
\* first that is not a complete object.
RECURSIVE CompleteObjects(_, _)
CompleteObjects(s, i) ==
    LET r == IF CharAt(s, i) = "{" THEN ScanOnce(s, i, 1) ELSE JSONDecodeError
    IN  IF i > Len(s) THEN <<>>
        ELSE IF IsJsonSpace(s[i]) \/ s[i] = "," THEN CompleteObjects(s, i + 1)
        ELSE IF r.st = "ok" THEN <<r.v>> \o CompleteObjects(s, r.i)
        ELSE <<>>

\* C6: for an array of records truncated in the middle of an object after
\* k complete objects, extract_json_from_text returns exactly the k
\* complete objects, in order.
C6_TruncatedKeepsComplete ==
    (Extracted /\ text \in TruncatedArrays)
        => result = Return(PyList(CompleteObjects(text, 2)))

\* The arrays of a text made of well-formed arrays of records and white
\* space only, from s[i] on; <<"no">> when the text is not of that form.
RECURSIVE ArraysOf(_, _)
ArraysOf(s, i) ==
    LET j    == SkipJsonSpace(s, i)
        r    == ScanOnce(s, j, 0)
        rest == ArraysOf(s, r.i)
    IN  IF j > Len(s) THEN <<>>
        ELSE IF r.st = "ok" /\ IsRecordList(r.v) /\ rest # <<"no">>
        THEN <<r.v[2]>> \o rest
        ELSE <<"no">>

IsConcatenatedArrays(s) == ArraysOf(s, 1) # <<"no">> /\ Len(ArraysOf(s, 1)) >= 2

\* C7: for a text made of two or more concatenated well-formed arrays of
\* records, extract_json_from_text returns one list with every record of
\* every array, in the order of the text.
C7_ConcatenatedArraysMerged ==
    (Extracted /\ IsConcatenatedArrays(text))
        => result = Return(PyList(Concat(ArraysOf(text, 1))))

\* The text with a comma put between "}" and "{" wherever the two, with
\* only white space between them, stand outside the string literals.
RECURSIVE WithObjectCommas(_, _, _)
WithObjectCommas(s, i, in_string) ==
    IF i > Len(s) THEN <<>>
    ELSE IF in_string /\ s[i] = Backslash
    THEN SubSeq(s, i, Min(i + 1, Len(s))) \o WithObjectCommas(s, i + 2, TRUE)
    ELSE IF s[i] = Quote
    THEN <<s[i]>> \o WithObjectCommas(s, i + 1, ~in_string)
    ELSE IF ~in_string /\ s[i] = "}" /\ CharAt(s, SkipJsonSpace(s, i + 1)) = "{"
    THEN <<"}", ",">> \o WithObjectCommas(s, SkipJsonSpace(s, i + 1), FALSE)
    ELSE <<s[i]>> \o WithObjectCommas(s, i + 1, in_string)

\* the only defect of s is the comma missing between adjacent objects
OnlyMissesObjectCommas(s) ==
    JsonLoads(s).st # "ok" /\ IsRecordArrayText(WithObjectCommas(s, 1, FALSE))

\* C8: for an array of objects whose only defect is the missing comma
\* between adjacent objects, _repair_json_string returns those objects in
\* order, every key and every string value unchanged.
C8_MissingCommaRepaired ==
    (Repaired /\ OnlyMissesObjectCommas(text))
        => result = Return(JsonLoads(WithObjectCommas(text, 1, FALSE)).v)

\* The text without the commas that stand, outside the string literals,
\* before a closing "]" or "}" (white space between allowed).
RECURSIVE WithoutTrailingCommas(_, _, _)
WithoutTrailingCommas(s, i, in_string) ==
    IF i > Len(s) THEN <<>>
    ELSE IF in_string /\ s[i] = Backslash
    THEN SubSeq(s, i, Min(i + 1, Len(s))) \o WithoutTrailingCommas(s, i + 2, TRUE)
    ELSE IF s[i] = Quote
    THEN <<s[i]>> \o WithoutTrailingCommas(s, i + 1, ~in_string)
    ELSE IF ~in_string /\ s[i] = "," /\ CharAt(s, SkipJsonSpace(s, i + 1)) \in {"]", "}"}
    THEN WithoutTrailingCommas(s, i + 1, FALSE)
    ELSE <<s[i]>> \o WithoutTrailingCommas(s, i + 1, in_string)

\* the only defect of s is a trailing comma
OnlyHasTrailingComma(s) ==
    JsonLoads(s).st # "ok" /\ IsRecordArrayText(WithoutTrailingCommas(s, 1, FALSE))

\* C9: for an array of records whose only defect is a trailing comma
\* before the closing "]" or "}", the result (of _repair_json_string and
\* of extract_json_from_text) is the same array without that comma.
C9_TrailingCommaRepaired ==
    ((Repaired \/ Extracted) /\ OnlyHasTrailingComma(text))
        => result = Return(JsonLoads(WithoutTrailingCommas(text, 1, FALSE)).v)

\* the least element of a non-empty set of integers
Least(S) == CHOOSE k \in S : \A j \in S : k <= j

Greatest(S) == CHOOSE k \in S : \A j \in S : k >= j

\* A fenced block is <<p, b, r>>: a fence at p, the body from b (after
\* the optional tag "json" and white space), and at r the first fence at
\* or after b. The first fenced block of s is the one with the least p;
\* <<0, 0, 0>> when s holds no fenced block.
FirstFencedBlock(s) ==
    LET fences    == {p \in 1..Len(s) : MatchAt(s, p, Fence)}
        BodyOf(p) == SkipSpace(s, IF MatchAt(s, p + 3, <<"j", "s", "o", "n">>)
                                  THEN p + 7 ELSE p + 3)
        opens     == {p \in fences : \E r \in fences : r >= BodyOf(p)}
        open      == Least(opens)
    IN  IF opens = {} THEN <<0, 0, 0>>
        ELSE <<open, BodyOf(open), Least({r \in fences : r >= BodyOf(open)})>>

HasFencedBlock(s) == FirstFencedBlock(s) # <<0, 0, 0>>

\* the content of the first fenced block, the white space around it
\* left out
FencedContent(s) ==
    LET pbr   == FirstFencedBlock(s)
        body  == SubSeq(s, pbr[2], pbr[3] - 1)
        inked == {k \in 1..Len(body) : ~IsSpace(body[k])}
    IN  IF inked = {} THEN <<>> ELSE SubSeq(body, Least(inked), Greatest(inked))

HasBracketValues(v) ==
    /\ IsRecordList(v)
    /\ Len(v[2]) > 0
    /\ \A k \in 1..Len(v[2]) : \A key \in DOMAIN v[2][k][2] :
           LET value == v[2][k][2][key]
           IN  value[1] = "str" /\ Chars(value[2]) \cap {"[", "]"} # {}

\* C11: for an array of records whose string values hold "[" or "]",
\* well-formed or with a trailing comma to repair, the recovered records
\* (of _repair_json_string and of extract_json_from_text) carry every value
\* verbatim.
C11_BracketValuesVerbatim ==
    LET intended == JsonLoads(WithoutTrailingCommas(text, 1, FALSE))
    IN  ((Repaired \/ Extracted) /\ intended.st = "ok" /\ HasBracketValues(intended.v))
            => result = Return(intended.v)

\* json.dumps of one character of a string
DumpsChar(c) ==
    CASE c = Quote     -> <<Backslash, Quote>>
      [] c = Backslash -> <<Backslash, Backslash>>
      [] c = "\n"      -> <<Backslash, "n">>
      [] c = "\r"      -> <<Backslash, "r">>
      [] c = "\t"      -> <<Backslash, "t">>
      [] c = "\f"      -> <<Backslash, "f">>
      [] c = "^H"      -> <<Backslash, "b">>
      [] c = "^A"      -> <<Backslash, "u", "0", "0", "0", "1">>
      [] OTHER         -> <<c>>

DumpsStr(cs) == <<Quote>> \o Concat([k \in 1..Len(cs) |-> DumpsChar(cs[k])]) \o <<Quote>>

RECURSIVE JsonDumps(_), DumpsPairs(_, _)

\* json.dumps(v), the JSON serialisation of a value: ", " between the
\* items and ": " after a key
JsonDumps(v) ==
    CASE v[1] = "None" -> <<"n", "u", "l", "l">>
      [] v[1] = "bool" -> IF v[2] = "true" THEN <<"t", "r", "u", "e">>
                                           ELSE <<"f", "a", "l", "s", "e">>
      [] v[1] = "num"  -> v[2]
      [] v[1] = "str"  -> DumpsStr(v[2])
      [] v[1] = "list" ->
           <<"[">> \o Join([k \in 1..Len(v[2]) |-> JsonDumps(v[2][k])], <<",", " ">>)
                   \o <<"]">>
      [] v[1] = "dict" -> <<"{">> \o DumpsPairs(v[2], DOMAIN v[2]) \o <<"}">>

\* the pairs of the dict f with their keys in keys, one key after the
\* other
DumpsPairs(f, keys) ==
    IF keys = {} THEN <<>>
    ELSE LET key == CHOOSE k \in keys : TRUE
         IN  DumpsStr(key) \o <<":", " ">> \o JsonDumps(f[key])
                 \o (IF keys = {key} THEN <<>> ELSE <<",", " ">>)
                 \o DumpsPairs(f, keys \ {key})

\* C12: idempotence. When extract_json_from_text succeeds with records R,
\* extract_json_from_text on the JSON serialisation of R returns R again.
C12_Idempotent ==
    (Extracted /\ result[1] = "return" /\ IsRecordList(result[2]))
        => ExtractJsonFromText(JsonDumps(result[2])).ret = result

\* the call ended at line 241: a "[" was found and every strategy failed
FoundButUnrecoverable ==
    /\ Extracted
    /\ Len(stdout) > 0
    /\ stdout[Len(stdout)] = "No complete JSON array could be extracted"

\* texts without a "[", on which the call ends at line 185
NoJsonTexts == {<<>>, <<"x">>, <<"x", " ", "x">>, <<"]">>, <<"{", "x", "}">>}

\* C13: the failure signal returned for "found but unrecoverable" is a
\* different value from the one returned for "no JSON found".
C13_FailureSignalsDiffer ==
    FoundButUnrecoverable
        => \A none \in NoJsonTexts : ExtractJsonFromText(none).ret # result

\* C14: extract_json_from_text keeps no state across calls. Under every
\* interleaving of concurrent invocations, the outcome of each invocation
\* is the outcome of the function run alone on that invocation's text.
C14_InvocationsIndependent ==
    \A i \in Invocations :
        calls[i].status = "returned"
            => calls[i].outcome = ExtractJsonFromText(calls[i].input).ret

\* two invocations on different texts, interleaved: the second started
\* while the first was in progress and returned first, and both returned
\* their own records
C14_Witness ==
    /\ calls[1].status = "running"
    /\ Locals(1).pc = "strategy2"
    /\ calls[2].status = "returned"
    /\ calls[1].input # calls[2].input
    /\ IsRecordList(calls[2].outcome[2])
    /\ Len(calls[2].outcome[2][2]) = 1
    /\ Len(stdout) >= 2

\* the records stored for the page with this id: the page's entry says how
\* many, and all_triples holds the pages' records in the order the pages
\* were stored
Ran(script) == pc = script /\ result[1] = "exit"

ScriptRan == Ran("simple_extract") \/ Ran("batch_extract") \/ Ran("retry_failed")

\* the ids of the pages of the input file
InputIds == {input_data[k].id : k \in 1..Len(input_data)}

\* the record t carries the source identifier of some page of the input
CarriesPageId(t) ==
    /\ IsDict(t)
    /\ SourcePageId \in DOMAIN t[2]
    /\ \E id \in InputIds : t[2][SourcePageId] = PyStr(id)

\* the records in all_triples with the source identifier id
TriplesOf(id) ==
    SelectSeq(output.all_triples,
        LAMBDA t : IsDict(t) /\ SourcePageId \in DOMAIN t[2]
                       /\ t[2][SourcePageId] = PyStr(id))

\* C15: whenever an extraction script accepts the records of a page, every
\* accepted record carries the source identifier of that page: every
\* record in all_triples has the source_page_id of a page of the input,
\* and each accepted page has as many records with its id as its entry in
\* the output counts.
C15_RecordsCarryPageId ==
    ScriptRan /\ output # Absent =>
        /\ \A k \in 1..Len(output.all_triples) : CarriesPageId(output.all_triples[k])
        /\ \A id \in DOMAIN output.pages :
               Len(TriplesOf(id)) = output.pages[id].triple_count

\* simple_extract has stored a page and batch_extract or retry_failed
\* another
C15_Witness ==
    /\ ScriptRan /\ output # Absent
    /\ Len(output.all_triples) >= 2
    /\ Cardinality(DOMAIN output.pages) = 2
    /\ \E id \in DOMAIN output.pages : "url" \notin DOMAIN output.pages[id]
    /\ \E id \in DOMAIN output.pages : "url" \in DOMAIN output.pages[id]

RECURSIVE ClosingBracket(_, _, _, _, _)
ClosingBracket(s, i, depth, in_string, escaped) ==
    IF i > Len(s) THEN 0
    ELSE IF escaped THEN ClosingBracket(s, i + 1, depth, in_string, FALSE)
    ELSE IF in_string /\ s[i] = Backslash THEN ClosingBracket(s, i + 1, depth, TRUE, TRUE)
    ELSE IF s[i] = Quote THEN ClosingBracket(s, i + 1, depth, ~in_string, FALSE)
    ELSE IF in_string THEN ClosingBracket(s, i + 1, depth, TRUE, FALSE)
    ELSE IF s[i] = "[" THEN ClosingBracket(s, i + 1, depth + 1, FALSE, FALSE)
    ELSE IF s[i] = "]" THEN
        IF depth - 1 = 0 THEN i ELSE ClosingBracket(s, i + 1, depth - 1, FALSE, FALSE)
    ELSE ClosingBracket(s, i + 1, depth, FALSE, FALSE)

\* extract_json_from_text came to count brackets in the text itself: no
\* code fence, no direct parse, a "[" in the text
CountsBrackets ==
    /\ Extracted
    /\ ~CodeBlockSearch(text, 1).found
    /\ JsonLoads(text).st = "JSONDecodeError"
    /\ FindFrom(text, <<"[">>, 1) # 0

\* C17: the bracket matching that delimits the candidate array is
\* string-literal-aware: the candidate ends at the "]" that closes the
\* first "[" outside any string.
C17_BracketMatchingStringAware ==
    CountsBrackets =>
        LET start_idx == FindFrom(text, <<"[">>, 1)
        IN  BracketScan(text, start_idx, 0) = ClosingBracket(text, start_idx, 0, FALSE, FALSE)

\* s from s[i] on with every character inside a double-quoted string
\* replaced by "x": a quote opens or closes a string, and inside a string
\* a backslash and the character after it belong to the string
RECURSIVE Mask(_, _, _, _)
Mask(s, i, in_string, escaped) ==
    IF i > Len(s) THEN <<>>
    ELSE IF escaped THEN <<"x">> \o Mask(s, i + 1, TRUE, FALSE)
    ELSE IF in_string /\ s[i] = Backslash THEN <<"x">> \o Mask(s, i + 1, TRUE, TRUE)
    ELSE IF s[i] = Quote THEN <<Quote>> \o Mask(s, i + 1, ~in_string, FALSE)
    ELSE IF in_string THEN <<"x">> \o Mask(s, i + 1, TRUE, FALSE)
    ELSE <<s[i]>> \o Mask(s, i + 1, FALSE, FALSE)

\* the call of _extract_complete_objects has returned
ObjectsExtracted == pc = "_extract_complete_objects"

\* C18: in _extract_complete_objects braces inside a double-quoted string
\* never change the brace depth, and a backslash inside a string protects
\* the next character: the objects found are those found in the text with
\* the contents of its strings blanked, at the same places.
C18_StringsAreInert ==
    ObjectsExtracted =>
        LET objects == result[2][2]
            blanked == ExtractCompleteObjects(
                           SubSeq(text, 1, start - 1) \o Mask(text, start, FALSE, FALSE), start)
        IN  /\ Len(objects) = Len(blanked)
            /\ \A k \in 1..Len(objects) : Mask(objects[k][2], 1, FALSE, FALSE) = blanked[k]

\* an object is found whose string value holds a brace after an escaped
\* quote
C18_Witness ==
    /\ ObjectsExtracted
    /\ Len(result[2][2]) >= 1
    /\ \E k \in 1..Len(result[2][2]) :
           LET object == result[2][2][k][2]
           IN  \E j \in 1..(Len(object) - 3) :
                   /\ object[j] = Backslash /\ object[j + 1] = Quote
                   /\ object[j + 2] \in {"{", "}"}
                   /\ object[j + 3] = Quote

\* the index of the "}" that closes a "{" in m, counting from m[i] at this
\* depth; 0 when m ends first (m has the contents of its strings blanked)
RECURSIVE ClosingBrace(_, _, _)
ClosingBrace(m, i, depth) ==
    IF i > Len(m) THEN 0
    ELSE IF m[i] = "{" THEN ClosingBrace(m, i + 1, depth + 1)
    ELSE IF m[i] = "}" THEN
        IF depth = 1 THEN i ELSE ClosingBrace(m, i + 1, depth - 1)
    ELSE ClosingBrace(m, i + 1, depth)

\* the complete balanced objects of s from s[i] on that lie in no other
\* complete object, in text order (m is s with its strings blanked)
RECURSIVE TopLevelObjects(_, _, _)
TopLevelObjects(s, m, i) ==
    IF i > Len(s) THEN <<>>
    ELSE LET close == IF m[i] = "{" THEN ClosingBrace(m, i + 1, 1) ELSE 0
         IN  IF close # 0
             THEN <<PyStr(SubSeq(s, i, close))>> \o TopLevelObjects(s, m, close + 1)
             ELSE TopLevelObjects(s, m, i + 1)

\* C19: _extract_complete_objects(text, start) returns, in text order,
\* every complete balanced top-level {...} substring at or after start,
\* whatever prose, stray brackets or stray braces surround the objects,
\* and nothing else.
C19_EveryCompleteObject ==
    ObjectsExtracted =>
        result = Return(PyList(TopLevelObjects(text,
                     SubSeq(text, 1, start - 1) \o Mask(text, start, FALSE, FALSE), start)))

\* the diagnostics hold this line
Printed(line) == \E k \in 1..Len(stdout) : stdout[k] = line

\* extract_json_from_text found another "[" after the matched array (the
\* text has no code fence: the text is what the strategies work on)
MultipleArraysDetected ==
    /\ Extracted
    /\ ~CodeBlockSearch(text, 1).found
    /\ Printed("Multiple arrays detected, merging...")

\* C20: when another "[" follows the matched array's closing bracket, the
\* cascade goes straight to the multi-array merge: object reconstruction
\* does not run, and the records returned are those of the merge.
C20_StraightToMerge ==
    MultipleArraysDetected =>
        /\ ~Printed("Recovered objects via reconstruction")
        /\ result = MergeStrategy(text, <<>>).ret

\* the candidate array of a text whose brackets are counted: from the
\* first "[" to the "]" that brings the count back to zero (empty when
\* there is none), and what follows it
Candidate ==
    LET start_idx == FindFrom(text, <<"[">>, 1)
        close     == BracketScan(text, start_idx, 0)
    IN  IF close = 0 THEN <<>> ELSE SubSeq(text, start_idx, close)

Remainder ==
    LET start_idx == FindFrom(text, <<"[">>, 1)
    IN  Strip(SubSeq(text, start_idx + Len(Candidate), Len(text)))

\* the bracket-matched repair ran: a candidate, and no "[" after it
RepairsCandidate ==
    CountsBrackets /\ Candidate # <<>> /\ CharAt(Remainder, 1) # "["

\* r is a return of a list
ReturnsList(r) == r[1] = "return" /\ IsList(r[2])

\* C21: the multi-array merge never fires once a single-array strategy has
\* succeeded: if the bracket-matched repair produced a parseable list,
\* the function returns that list and the merge is not executed.
C21_NoMergeAfterSuccess ==
    (RepairsCandidate /\ ReturnsList(RepairJsonString(Candidate)))
        => /\ result = RepairJsonString(Candidate)
           /\ ~Printed("Merged arrays into objects")

\* the five repairs, one stage at a time, with a full parse after each
\* stage and the next stage only when that parse failed
StageKeys(s4) ==
    TryLoads(SubTrailingComma(SubUnquotedKey(s4, 1), 1), Return(None))

StageTrailingComma(s3) ==
    TryLoads(SubTrailingComma(s3, 1), StageKeys(SubTrailingComma(s3, 1)))

StagePropertyComma(s2) ==
    TryLoads(SubValueKey(SubAdjacentKey(s2, 1), 1),
             StageTrailingComma(SubValueKey(SubAdjacentKey(s2, 1), 1)))

StageObjectComma(s1) ==
    TryLoads(SubObjectComma(s1, 1), StagePropertyComma(SubObjectComma(s1, 1)))

StagedRepair(json_str) ==
    TryLoads(StripControl(json_str), StageObjectComma(StripControl(json_str)))

\* C22: _repair_json_string applies its five repairs in the order control
\* characters, inter-object comma, inter-property comma, trailing comma,
\* unquoted keys, with a full parse after each stage, a later stage only
\* when the parse after the stage before it failed, and the first
\* successful parse returned.
C22_ParseAfterEachStage ==
    Repaired => result = StagedRepair(text)

\* the candidate array is itself a parseable list, and not an empty one
CandidateIsList ==
    LET Parsed(r) == r.st = "ok" /\ IsList(r.v) /\ Truthy(r.v)
    IN  Candidate # <<>> /\ Parsed(JsonLoads(Candidate))

\* C23: extract_json_from_text returns the failure signal only on total
\* exhaustion; in particular, whenever the bracket-matched candidate
\* substring is itself a parseable list, the result is not the failure
\* signal.
C23_FailureOnlyOnExhaustion ==
    (CountsBrackets /\ CandidateIsList) => result # Return(None)

\* the lists that the bracket-delimited array substrings from arrays[k] on
\* repair and parse to, in order; a substring that does not parse as a
\* list contributes nothing
RECURSIVE ListsOf(_, _)
ListsOf(arrays, k) ==
    IF k > Len(arrays) THEN <<>>
    ELSE LET Parsed(r) ==
                 IF ReturnsList(r) THEN <<r[2][2]>> \o ListsOf(arrays, k + 1)
                 ELSE ListsOf(arrays, k + 1)
         IN  Parsed(RepairJsonString(arrays[k]))

\* the cascade reached the multi-array merge: only there are these lines
\* printed
MergeReached ==
    /\ CountsBrackets
    /\ \/ Printed("Merged arrays into objects")
       \/ Printed("No complete JSON array could be extracted")

\* C24: when the cascade reaches the multi-array merge, the result is the
\* in-order concatenation of the elements of every bracket-delimited
\* array substring that repairs and parses as a list, and the failure
\* signal only when no such substring parses as a list. (Stated for the
\* texts whose lists hold an element: the empty list is another matter.)
C24_MergeConcatenatesLists ==
    MergeReached =>
        LET Merged(lists) ==
                Len(Concat(lists)) > 0 => result = Return(PyList(Concat(lists)))
        IN  Merged(ListsOf(FindAllArrays(text, 1), 1))

\* The text with every bare-word key quoted: a word that stands, outside the
\* string literals, between a "{" or "," and a ":" (white space allowed).
RECURSIVE WithQuotedKeys(_, _, _)
WithQuotedKeys(s, i, in_string) ==
    IF i > Len(s) THEN <<>>
    ELSE IF in_string /\ s[i] = Backslash
    THEN SubSeq(s, i, Min(i + 1, Len(s))) \o WithQuotedKeys(s, i + 2, TRUE)
    ELSE IF s[i] = Quote
    THEN <<s[i]>> \o WithQuotedKeys(s, i + 1, ~in_string)
    ELSE LET j == SkipSpace(s, i + 1)
             w == SkipWord(s, j)
             c == SkipSpace(s, w)
         IN  IF ~in_string /\ s[i] \in {"{", ","} /\ w > j /\ CharAt(s, c) = ":"
             THEN <<s[i], Quote>> \o SubSeq(s, j, w - 1) \o <<Quote, ":">>
                      \o WithQuotedKeys(s, c + 1, FALSE)
             ELSE <<s[i]>> \o WithQuotedKeys(s, i + 1, in_string)

\* the only defect of s is that keys are bare words
OnlyHasUnquotedKeys(s) ==
    JsonLoads(s).st # "ok" /\ IsRecordArrayText(WithQuotedKeys(s, 1, FALSE))

\* C25: for an array of objects whose only defect is unquoted bare-word
\* keys, _repair_json_string returns the records the same text with those
\* keys quoted parses to, every string value unchanged.
C25_UnquotedKeysRepaired ==
    (Repaired /\ OnlyHasUnquotedKeys(text))
        => result = Return(JsonLoads(WithQuotedKeys(text, 1, FALSE)).v)

\* the invocation of the stepwise specification has returned or raised
Returned == pc = "stepwise" /\ calls[1].status = "returned"

\* the place of a block in the function
Rank(at) ==
    CASE at = "none"         -> 0
      [] at = "fence"        -> 1
      [] at = "direct"       -> 2
      [] at = "find"         -> 3
      [] at = "bracket_loop" -> 4
      [] at = "strategy1"    -> 5
      [] at = "strategy2"    -> 6
      [] at = "brace_loop"   -> 7
      [] at = "reconstruct"  -> 8
      [] at = "strategy3"    -> 9
      [] at = "done"         -> 10

\* a step of the invocation goes on to a later block, or stays in a loop
\* and moves its index one position to the right
Advances ==
    \/ calls' # calls
    \/ Rank(frames'[1].pc) > Rank(frames[1].pc)
    \/ /\ frames'[1].pc = frames[1].pc
       /\ frames[1].pc \in {"bracket_loop", "brace_loop"}
       /\ frames'[1].i = frames[1].i + 1
       /\ frames[1].i \in 1..Len(frames[1].text)

\* C26: extract_json_from_text terminates on every finite text: the two
\* scanners visit each position at most once and never move backwards,
\* and no block of the cascade runs a second time.
C26_Terminates == <>Returned /\ [][Advances]_vars

\* a text went through both loops to their ends, the second one found an
\* object, and the function returned
C26_Witness ==
    /\ Returned
    /\ frames[1].pc = "done"
    /\ frames[1].i > Len(frames[1].text)
    /\ Len(frames[1].objects) > 0
    /\ Printed("Found incomplete JSON array, attempting to extract complete objects...")

\* the stepwise invocation returns what the function returns
StepwiseAgrees ==
    Returned => LET Same(r) == calls[1].outcome = r.ret /\ stdout = r.out
                IN  Same(ExtractJsonFromText(text))

\* the step called process_page (or extract_triples) for page p
AttemptOf(p) == attempts'[p] > attempts[p]

\* C27: the scripts count each page's failures against a retry budget, so
\* that the attempts for one page are bounded. The state file and the
\* output file are all a run leaves to the next one: every attempt of a
\* page leaves its trace in them.
C27_FailuresCounted ==
    [][\A p \in DOMAIN attempts :
          AttemptOf(p) => <<state, output>>' # <<state, output>>]_vars

\* the ids in state["skipped_ids"]
SkippedIds(st) == Get(st, "skipped_ids", <<>>)

\* how often id is in the list ids
Count(ids, id) == Cardinality({k \in 1..Len(ids) : ids[k] = id})

\* C28: a binary page that retry_failed moved to skipped_ids is out for
\* good: no later run extracts it again, it does not come back to
\* failed_ids, and it stays in skipped_ids exactly once.
C28_SkippedStaysOut ==
    [][\A p \in Elems(SkippedIds(state)) :
          /\ ~AttemptOf(p)
          /\ p \notin Elems(Get(state', "failed_ids", <<>>))
          /\ Count(SkippedIds(state'), p) = 1]_vars

\* the ids of the input pages that are no duplicates
NonDuplicateIds ==
    {input_data[k].id : k \in {j \in 1..Len(input_data) : ~input_data[j].is_duplicate_of}}

\* every page that is no duplicate is in processed_ids or in failed_ids
AllAccountedFor ==
    NonDuplicateIds \subseteq Elems(state.processed_ids) \cup Elems(state.failed_ids)

\* C29: a run of batch_extract.main exits with 0 exactly when, at its end,
\* every non-duplicate page of the input is in processed_ids or in
\* failed_ids, and the state it saved then has the phase "complete";
\* otherwise it exits with 1.
C29_ExitStatus ==
    Ran("batch_extract")
        => /\ result \in {Exit(0), Exit(1)}
           /\ result = Exit(0) <=> AllAccountedFor
           /\ result = Exit(0) => state.phase = "complete"

\* a run left a page for the next one and exited with 1
C29_Witness ==
    /\ Ran("batch_extract")
    /\ result = Exit(1)
    /\ ~AllAccountedFor
    /\ Len(state.processed_ids) + Len(state.failed_ids) > 0

\* the step is a run of retry_failed that called process_page for page p
Retried(p) == pc' = "retry_failed" /\ AttemptOf(p)

\* failed_ids once the binary pages have moved to skipped_ids
StillFailed ==
    SelectSeq(state.failed_ids, LAMBDA fid : ~IsBinaryContent(PageById(fid).content))

\* the retry of p succeeded with n triples
RetrySucceeded(p, n) ==
    /\ n > 0
    /\ state'.processed_ids = Append(state.processed_ids, p)
    /\ Count(state'.failed_ids, p) = Count(StillFailed, p) - 1
    /\ \A q \in DOMAIN attempts \ {p} :
           Count(state'.failed_ids, q) = Count(StillFailed, q)
    /\ state'.total_triples = state.total_triples + n
    /\ output'.pages[p].triple_count = n
    /\ SubSeq(output'.all_triples, 1, Len(LoadOutput.all_triples)) = LoadOutput.all_triples

\* the retry of p failed again
RetryFailedAgain(p) ==
    /\ state'.processed_ids = state.processed_ids
    /\ state'.failed_ids = StillFailed
    /\ state'.total_triples = state.total_triples
    /\ output'.pages = LoadOutput.pages
    /\ output'.all_triples = LoadOutput.all_triples

\* C30: in retry_failed a retried page that succeeds is removed from
\* failed_ids and appended to processed_ids, and total_triples grows by the
\* number of its triples; a page that fails again leaves processed_ids,
\* failed_ids, total_triples and the pages and all_triples of the output as
\* they were.
C30_RetryOutcome ==
    [][\A p \in DOMAIN attempts :
          Retried(p) =>
              \/ RetrySucceeded(p, Len(output'.all_triples) - Len(LoadOutput.all_triples))
              \/ RetryFailedAgain(p)]_vars

\* a page with text failed, was retried, and is processed now
C30_Witness ==
    /\ Ran("retry_failed")
    /\ \E k \in 1..Len(input_data) :
          /\ ~IsBinaryContent(input_data[k].content)
          /\ attempts[input_data[k].id] >= 2
          /\ input_data[k].id \in Elems(state.processed_ids)
          /\ input_data[k].id \notin Elems(state.failed_ids)
          /\ state.total_triples > 0

\* no element of the list is in it twice
NoRepeats(ids) == \A j, k \in 1..Len(ids) : ids[j] = ids[k] => j = k

\* C37: after any sequence of runs from the empty state, processed_ids and
\* failed_ids have no page id in common and neither holds an id twice.
C37_ListsDisjoint ==
    (ScriptRan /\ state # Absent) =>
        /\ Elems(state.processed_ids) \cap Elems(state.failed_ids) = {}
        /\ NoRepeats(state.processed_ids)
        /\ NoRepeats(state.failed_ids)

\* a retry moved one page to processed_ids while another page is still in
\* failed_ids
C37_Witness ==
    /\ Ran("retry_failed")
    /\ Len(state.failed_ids) > 0
    /\ \E k \in 1..Len(input_data) :
          /\ attempts[input_data[k].id] >= 2
          /\ input_data[k].id \in Elems(state.processed_ids)

\* C38: after every completed run of batch_extract or retry_failed the
\* counters agree with the data: total_triples of the state is the length
\* of all_triples and the total_triples of the output's metadata, and
\* there are as many processed_ids as entries in the output's pages.
C38_CountersAgree ==
    (Ran("batch_extract") \/ Ran("retry_failed")) =>
        /\ state.total_triples = Len(LoadOutput.all_triples)
        /\ output # Absent => output.metadata["total_triples"] = state.total_triples
        /\ Len(state.processed_ids) = Cardinality(DOMAIN LoadOutput.pages)

\* both scripts stored pages with triples
C38_Witness ==
    /\ Ran("retry_failed")
    /\ output # Absent
    /\ Len(state.processed_ids) = 2
    /\ state.total_triples >= 2
    /\ \E k \in 1..Len(input_data) : attempts[input_data[k].id] >= 2

\* the pages, duplicates aside, that no run has attempted yet
Unattempted == {p \in NonDuplicateIds : attempts[p] = 0}

\* C36: run after run of batch_extract.main from the empty state, with N
\* non-duplicate pages, exits with 0 after at most ceil(N/2) runs (one run
\* when N = 0): a run that finds r pages to do attempts the first
\* min(r, PAGES_PER_ITERATION) of them and no page a second time, and it
\* exits with 0 exactly when that leaves none to do.
C36_BatchTerminates ==
    [][pc' = "batch_extract" =>
          LET Run(r) ==
                  /\ \A p \in DOMAIN attempts : attempts'[p] <= 1
                  /\ Cardinality(Unattempted') = r - Min(r, BatchPagesPerIteration)
                  /\ result' = Exit(IF r <= BatchPagesPerIteration THEN 0 ELSE 1)
          IN  Run(Cardinality(Unattempted))]_vars

\* four pages were done in two runs
C36_Witness ==
    /\ Ran("batch_extract")
    /\ result = Exit(0)
    /\ Cardinality(NonDuplicateIds) = 4
    /\ Unattempted = {}
    /\ state.phase = "complete"

\* q has text, is in failed_ids and was attempted only by the run that put
\* it there: no run of retry_failed has retried it yet
WaitsForRetry(q) ==
    /\ q \in Elems(state.failed_ids)
    /\ ~IsBinaryContent(PageById(q).content)
    /\ attempts[q] = 1

\* C35: under repeated runs of retry_failed every failed page with text
\* is retried in the end, also when another failed page fails on every
\* attempt. A run starts from the two files only: a retry of p that fails
\* while q still waits must not leave the state file as it found it, or
\* every later run retries p again and q never has its turn.
C35_NoStarvation ==
    [][\A p, q \in DOMAIN attempts :
          (Retried(p) /\ p # q /\ WaitsForRetry(q) /\ RetryFailedAgain(p))
              => state' # state]_vars

\* the page id is in the output with its triples
StoredWithTriples(id) ==
    /\ output # Absent
    /\ id \in DOMAIN output.pages
    /\ output.pages[id].triple_count > 0
    /\ Len(TriplesOf(id)) = output.pages[id].triple_count

\* C34: the checkpoint is crash-consistent: when a run of batch_extract
\* or retry_failed is stopped between the write of the state file and the
\* write of the output file, then after every later run each page in
\* processed_ids has its entry in the output's pages and its triples in
\* all_triples.
C34_CrashConsistent ==
    (Ran("batch_extract") \/ Ran("retry_failed")) =>
        \A id \in Elems(state.processed_ids) : StoredWithTriples(id)

JudgeParts == {"classified", "deduped"}

\* no run of phi3_judge is in progress and the state file lists every
\* case: a further run finds nothing left to judge
NothingLeftToJudge ==
    /\ pc = "phi3_judge"
    /\ frames = <<>>
    /\ \A part \in JudgeParts : Elems(CasesOf(part)) \subseteq Elems(JudgeLoadState[part])

\* how many results the output file of the part holds for the case
ResultsFor(part, case) ==
    Cardinality({k \in 1..Len(PreviousResults(part)) : PreviousResults(part)[k].case = case})

\* C31: phi3_judge is resumable: when runs were interrupted at any point
\* and the script was run again until nothing is left, every ambiguous
\* page and every MEDIUM pair has been judged exactly once: each case the
\* state lists has exactly one result in the output file.
C31_Resumable ==
    NothingLeftToJudge =>
        \A part \in JudgeParts :
            \A case \in Elems(JudgeLoadState[part]) : ResultsFor(part, case) = 1

\* C32: every case phi3_judge records has the verdict AGREE, DISAGREE or
\* UNCERTAIN: DISAGREE when the response holds "DISAGREE" in any case of
\* the letters, AGREE when it holds "AGREE" and not "DISAGREE", UNCERTAIN
\* otherwise.
C32_VerdictOfThree ==
    \A part \in JudgeParts :
        \A k \in 1..Len(PreviousResults(part)) :
            LET r == PreviousResults(part)[k]
            IN  /\ r.verdict \in {Agree, Disagree, Uncertain}
                /\ r.verdict =
                       IF Contains(Upper(r.raw_response), Disagree) THEN Disagree
                       ELSE IF Contains(Upper(r.raw_response), Agree) THEN Agree
                       ELSE Uncertain

PhaseRank(phase) == CHOOSE k \in 1..Len(Phases) : Phases[k] = phase

ScraperRan == pc = "nhs_scraper"

\* C33: the phase of the scraper only moves forward in the order
\* url_discovery, scraping, duplicates, complete: no run, finished or
\* stopped, leaves the state file in an earlier phase than it found, and a
\* run of main that finishes exits with status 0 exactly when the phase it
\* leaves is complete.
C33_PhaseForward ==
    [][ScraperRan' =>
           /\ PhaseRank(ScraperLoadState.phase') >= PhaseRank(ScraperLoadState.phase)
           /\ result' # Killed =>
                  (result' = Return(0) <=> ScraperLoadState.phase' = "complete")]_vars

\* C33: a run went through the phases to the end: the state file says
\* complete with both targets met, and main exited with status 0
C33_Witness ==
    /\ ScraperRan
    /\ result = Return(0)
    /\ ScraperLoadState.phase = "complete"
    /\ ScraperLoadState.scraped_count >= TargetPages
    /\ ScraperLoadOutput.duplicate_pairs >= TargetDuplicates

====
